---- MODULE Spec2Model ----
(***************************************************************************)
(* NeoNote drawing engine (src/public/js/canvas.js), its editor glue       *)
(* (public/js/app.js: loadPageIntoEditor, closeEditor) and the stroke      *)
(* store (src/routes/strokes.js, src/routes/export.js).                    *)
(*                                                                         *)
(* Conventions                                                             *)
(*  - JS arrays are sequences; a nullable field is a sequence of length    *)
(*    0 (null) or 1; pageId 0 is null.                                     *)
(*  - Coordinates are integers in units of 1/20 px (0.1 px = 2 units), so  *)
(*    that the engine's fractional constants stay exact.                  *)
(*  - crypto.randomUUID() is the counter nextId: ids are only compared for *)
(*    equality.                                                            *)
(*  - The single JS event loop makes every handler atomic up to its first  *)
(*    await; each await of a fetch is a separate step.                     *)
(***************************************************************************)
EXTENDS Integers, Sequences, FiniteSets, TLC

(* ------------------------------ bounds -------------------------------- *)
NumPages == 2
LayersPerPage == 2
MaxStrokes == 2
MaxPending == 3
MaxPoints == 2
MaxCommits == 82
MaxHistory == 3
MaxLayerCalls == 2
MaxAdds == 1
MaxImages == 2
SigBits == 11
FrameMs == 16
IdleMs == 200
AreaW == 28880
AreaH == 40000
MaxOffset == 40000
MaxViewOps == 4
CoastCut == 1900

(* ------------------------- program constants -------------------------- *)
(* coordinates are in units of 1/20 px *)
_MAX_UNDO == 80
width == 50
DOT_OFFSET == 2
ERASER_FACTOR == 5
MOVE_EPS == 40
RUBBER_EPS == 80
PASTE_OFFSET == 280
SELECT_PAD == 200
HANDLE_RADIUS == 280
PageW == 28080
PageH == 37440
ZOOM_MIN == 1
ZOOM_MAX == 200
FIT_MAX == 30
FIT_MARGIN == 800
PINCH_MIN_DIST == 20
RECENT_MS == 100
PAN_VEL_MIN == 100
MS_PER_FRAME == 16
FRICTION == 96
MIN_VEL == 160

PageIds == 1..NumPages

(* ------------------------------ helpers ------------------------------- *)
Range(s) == {s[i] : i \in DOMAIN s}
Ids(s) == {s[i].id : i \in DOMAIN s}
Indices(n) == [i \in 1..n |-> i]
Min(S) == CHOOSE m \in S : \A n \in S : m <= n
Max(S) == CHOOSE m \in S : \A n \in S : m >= n
Abs(n) == IF n < 0 THEN -n ELSE n

VARIABLES
  pageId, layers, activeLayerIdx, tool,
  _strokes, _images,
  _undoStack, _redoStack,
  _savePending, _deletePending, _autoSaveTimer, saveStatus,
  _drawing, _drawingPointerId, _points, _selection, _moveStart, _copyBuffer,
  _panning, _twoFingerActive, _penNearby, _palmRejection, _spaceDown,
  scale, offsetX, offsetY, _g, _panStart, _panVel, _panRafId,
  nextId,
  flushes, upsertIssued, lastFlush,
  dbStrokes, clearReqs, dbLayers, dbImages, layerReqs,
  editorOpen, nav,
  phase

engineVars == <<pageId, layers, activeLayerIdx, tool, _strokes, _images,
                _undoStack, _redoStack, _savePending, _deletePending,
                _autoSaveTimer, saveStatus, _drawing, _drawingPointerId,
                _points, _selection, _moveStart, _copyBuffer, _panning,
                _twoFingerActive, _penNearby, _palmRejection, _spaceDown,
                scale, offsetX, offsetY, _g, _panStart, _panVel, _panRafId, nextId>>
gestureVars == <<_drawing, _drawingPointerId, _points, _panning>>
inputVars == <<_twoFingerActive, _penNearby, _palmRejection, _spaceDown>>
viewVars == <<scale, offsetX, offsetY, _g, _panStart, _panVel, _panRafId>>
appVars == <<editorOpen, nav>>
vars == <<engineVars, flushes, upsertIssued, lastFlush, dbStrokes, clearReqs, dbLayers, dbImages,
          layerReqs, appVars, phase>>

(* --------------------------- geometry kernel -------------------------- *)
_computeBbox(pts) ==
  IF Len(pts) = 0 THEN <<>>
  ELSE LET xs == {pts[i].x : i \in DOMAIN pts}
           ys == {pts[i].y : i \in DOMAIN pts}
       IN <<[x |-> Min(xs), y |-> Min(ys),
             w |-> Max(xs) - Min(xs), h |-> Max(ys) - Min(ys)]>>

(* ------------------------------ numbers ------------------------------- *)
(* The numbers of the viewport are JS numbers, binary floating point.     *)
(* Here a number is an integer count of its unit, kept to SigBits         *)
(* significant bits: every operation rounds its exact result to the       *)
(* nearest such number, ties to the even one.  Screen coordinates and     *)
(* offsets count 1/20 px, scales and ratios count 1/20, velocities count  *)
(* 1/2000 px (per ms or per frame).                                       *)
RECURSIVE UlpOf(_, _)
UlpOf(a, u) == IF a < (2 ^ SigBits) * u THEN u ELSE UlpOf(a, 2 * u)

RoundHalfEven(num, den) ==
  LET q == num \div den
      r == num % den
  IN IF 2 * r < den THEN q
     ELSE IF 2 * r > den THEN q + 1
     ELSE IF q % 2 = 0 THEN q ELSE q + 1

(* num / den, den > 0, as a number of the format                          *)
Fl(num, den) ==
  LET u == UlpOf(Abs(num) \div den, 1)
  IN u * RoundHalfEven(num, den * u)

Add(a, b) == Fl(a + b, 1)
Sub(a, b) == Fl(a - b, 1)
(* a * b and a / b where b is a scale or a ratio                          *)
Mul(a, b) == Fl(a * b, 20)
Div(a, b) == IF b > 0 THEN Fl(a * 20, b) ELSE Fl(-(a * 20), -b)

RECURSIVE SqrtIn(_, _, _)
SqrtIn(n, lo, hi) ==
  IF lo >= hi THEN lo
  ELSE LET mid == (lo + hi + 1) \div 2
       IN IF mid * mid <= n THEN SqrtIn(n, mid, hi) ELSE SqrtIn(n, lo, mid - 1)
(* Math.hypot(dx, dy)                                                     *)
Hypot(dx, dy) ==
  LET n == dx * dx + dy * dy
      r == SqrtIn(n, 0, 46340)
  IN Fl(IF n - r * r <= r THEN r ELSE r + 1, 1)

(* Math.round of a number of px                                           *)
MathRound(v) == 20 * ((v + 10) \div 20)

(* a clamp that lets a zoom grow past ZOOM_MAX                            *)
ClampZoomBelow(s) == Max({ZOOM_MIN, s})

(* Math.max(0.05, Math.min(10, s))                                        *)
ClampZoom(s) == Max({ZOOM_MIN, Min({ZOOM_MAX, s})})

(* ----------------------------- the viewport --------------------------- *)
(* The canvas area is laid out, AreaW x AreaH, with its corner at the     *)
(* origin of the window (getBoundingClientRect().left = top = 0); every   *)
(* page has the default size PageW x PageH.                               *)
ViewFrame == UNCHANGED <<_g, _panStart, _panVel, _panRafId>>

_fitToScreen ==
  LET aw == Sub(AreaW, FIT_MARGIN)
      ah == Sub(AreaH, FIT_MARGIN)
      sc == Max({ZOOM_MIN, Min({Div(aw, PageW), Div(ah, PageH), FIT_MAX})})
  IN /\ scale' = sc
     /\ offsetX' = MathRound(Fl(Sub(AreaW, Mul(PageW, sc)), 2))
     /\ offsetY' = MathRound(Fl(Sub(AreaH, Mul(PageH, sc)), 2))

(* setZoom(s, clientX, clientY): assigns scale, offsetX and offsetY       *)
setZoom(s, clientX, clientY) ==
  LET newScale == ClampZoom(s)
  IN /\ scale' = newScale
     /\ offsetX' = Sub(clientX, Div(Mul(Sub(clientX, offsetX), newScale), scale))
     /\ offsetY' = Sub(clientY, Div(Mul(Sub(clientY, offsetY), newScale), scale))

(* Math.pow(1.002, -deltaY) for the wheel deltas used: 2.0003 (-347),     *)
(* 0.4999 (347), 1.0724 (-35), 20.0255 (-1500) and 0.0499 (1500), as     *)
(* numbers of the format                                                  *)
WheelFactor(deltaY) ==
  CASE deltaY = -347 -> 40
    [] deltaY = 347 -> 10
    [] deltaY = -35 -> 21
    [] deltaY = -1500 -> 400
    [] deltaY = 1500 -> 1
    [] OTHER -> 20

_stopInertia == _panRafId' = <<>>

(* _onWheel(e), e = [ctrlKey, deltaX, deltaY, clientX, clientY], in pixel *)
(* mode                                                                   *)
_onWheel(e) ==
  /\ _stopInertia
  /\ IF e.ctrlKey
     THEN setZoom(Mul(scale, WheelFactor(e.deltaY)), e.clientX, e.clientY)
     ELSE /\ offsetX' = Sub(offsetX, e.deltaX)
          /\ offsetY' = Sub(offsetY, e.deltaY)
          /\ UNCHANGED scale
  /\ UNCHANGED <<_g, _panStart, _panVel>>

(* _startInertia(vx, vy): the velocity per frame the first frame starts   *)
(* from                                                                   *)
_startInertia(vx, vy) ==
  _panRafId' = <<[velX |-> Fl(vx * MS_PER_FRAME, 1), velY |-> Fl(vy * MS_PER_FRAME, 1)]>>

(* step: one animation frame of the inertia                               *)
step ==
  LET velX == Fl(_panRafId[1].velX * FRICTION, 100)
      velY == Fl(_panRafId[1].velY * FRICTION, 100)
  IN IF Abs(velX) < MIN_VEL /\ Abs(velY) < MIN_VEL
     THEN /\ _panRafId' = <<>>
          /\ UNCHANGED <<offsetX, offsetY>>
     ELSE /\ offsetX' = Fl(offsetX * 100 + velX, 100)
          /\ offsetY' = Fl(offsetY * 100 + velY, 100)
          /\ _panRafId' = <<[velX |-> velX, velY |-> velY]>>

(* the pan branches of _onDown, _onMove and _onUp                         *)
PanStart(e) ==
  /\ _panStart' = <<[x |-> e.clientX, y |-> e.clientY, ox |-> offsetX, oy |-> offsetY]>>
  /\ _panVel' = [x |-> 0, y |-> 0]
  /\ UNCHANGED <<scale, offsetX, offsetY, _g>>

PanMove(e) ==
  LET dt   == Max({1, e.dt})
      newX == Add(_panStart[1].ox, Sub(e.clientX, _panStart[1].x))
      newY == Add(_panStart[1].oy, Sub(e.clientY, _panStart[1].y))
  IN /\ _panVel' = [x |-> Fl(Sub(newX, offsetX) * 100, dt),
                    y |-> Fl(Sub(newY, offsetY) * 100, dt)]
     /\ offsetX' = newX
     /\ offsetY' = newY
     /\ UNCHANGED <<scale, _g, _panStart, _panRafId>>

PanEnd(e) ==
  /\ IF e.dt < RECENT_MS /\ (Abs(_panVel.x) > PAN_VEL_MIN \/ Abs(_panVel.y) > PAN_VEL_MIN)
     THEN _startInertia(_panVel.x, _panVel.y)
     ELSE UNCHANGED _panRafId
  /\ UNCHANGED <<scale, offsetX, offsetY, _g, _panStart, _panVel>>

(* touchstart with the touches t0 and t1: the snapshot _g                 *)
touchstart(t0, t1) ==
  LET mx == Fl(Add(t0.x, t1.x), 2)
      my == Fl(Add(t0.y, t1.y), 2)
  IN /\ _twoFingerActive' = TRUE
     /\ _panning' = FALSE
     /\ _panStart' = <<>>
     /\ _stopInertia
     /\ _g' = <<[offsetX0 |-> offsetX, offsetY0 |-> offsetY, scale0 |-> scale,
                 mx0 |-> mx, my0 |-> my,
                 dist0 |-> Hypot(Sub(t0.x, t1.x), Sub(t0.y, t1.y)),
                 lastMx |-> mx, lastMy |-> my, velX |-> 0, velY |-> 0]>>
     /\ UNCHANGED <<scale, offsetX, offsetY, _panVel>>

(* touchmove with the touches t0 and t1, dt ms after the last one         *)
touchmove(t0, t1, dt) ==
  IF Len(_g) = 0
  THEN UNCHANGED viewVars
  ELSE LET g     == _g[1]
           mx1   == Fl(Add(t0.x, t1.x), 2)
           my1   == Fl(Add(t0.y, t1.y), 2)
           dist1 == Hypot(Sub(t0.x, t1.x), Sub(t0.y, t1.y))
           r     == IF g.dist0 > PINCH_MIN_DIST THEN Div(dist1, g.dist0) ELSE 20
       IN /\ scale' = ClampZoom(Mul(g.scale0, r))
          /\ offsetX' = Sub(mx1, Mul(Sub(g.mx0, g.offsetX0), r))
          /\ offsetY' = Sub(my1, Mul(Sub(g.my0, g.offsetY0), r))
          /\ _g' = <<[g EXCEPT !.velX = Fl(Sub(mx1, g.lastMx) * 100, Max({1, dt})),
                               !.velY = Fl(Sub(my1, g.lastMy) * 100, Max({1, dt})),
                               !.lastMx = mx1, !.lastMy = my1]>>
          /\ UNCHANGED <<_panStart, _panVel, _panRafId>>

(* _endGesture, dt ms after the last touchmove                            *)
_endGesture(dt) ==
  IF Len(_g) = 0
  THEN UNCHANGED <<viewVars, _twoFingerActive>>
  ELSE /\ IF dt < RECENT_MS /\ (Abs(_g[1].velX) > PAN_VEL_MIN \/ Abs(_g[1].velY) > PAN_VEL_MIN)
          THEN _startInertia(_g[1].velX, _g[1].velY)
          ELSE UNCHANGED _panRafId
       /\ _g' = <<>>
       /\ _twoFingerActive' = FALSE
       /\ UNCHANGED <<scale, offsetX, offsetY, _panStart, _panVel>>

(* ----------------------------- sync queue ----------------------------- *)
(* _scheduleSave / _scheduleDelete: append and (re)start the debounce     *)
(* timer.  They are written as the post-state they produce so that the    *)
(* handlers can compose them.                                             *)
_scheduleSave(strokes) ==
  /\ _savePending' = _savePending \o strokes
  /\ _autoSaveTimer' = TRUE
  /\ saveStatus' = "Unsaved"

_scheduleDelete(ids) ==
  /\ _deletePending' = _deletePending \o ids
  /\ _autoSaveTimer' = TRUE

(* ------------------------------ history ------------------------------- *)
(* a push that never drops the oldest entry                               *)
_pushUndoNoShift(entry) ==
  /\ _undoStack' = Append(_undoStack, entry)
  /\ _redoStack' = <<>>

(* a push that leaves the redo stack as it is                             *)
_pushUndoKeepRedo(entry) ==
  /\ _undoStack' = LET pushed == Append(_undoStack, entry)
                   IN IF Len(pushed) > _MAX_UNDO THEN Tail(pushed) ELSE pushed
  /\ UNCHANGED _redoStack

(* _pushUndo(entry): push, drop the oldest entry beyond _MAX_UNDO, clear   *)
(* the redo stack.                                                        *)
_pushUndo(entry) ==
  /\ _undoStack' = LET pushed == Append(_undoStack, entry)
                   IN IF Len(pushed) > _MAX_UNDO THEN Tail(pushed) ELSE pushed
  /\ _redoStack' = <<>>

(* _applyInverse(entry, otherStack): the model and pending-set part; the   *)
(* caller pushes Inverse(entry) onto otherStack.                          *)
Inverse(entry) ==
  [type |-> IF entry.type = "add" THEN "delete" ELSE "add", strokes |-> entry.strokes]

(* an inverse that handles the first stroke of the entry only            *)
_applyInverseFirstOnly(entry) ==
  LET first == IF Len(entry.strokes) = 0 THEN <<>> ELSE <<entry.strokes[1]>>
  IN IF entry.type = "add"
     THEN /\ _strokes' = SelectSeq(_strokes, LAMBDA s : s.id \notin Ids(first))
          /\ _scheduleDelete([i \in DOMAIN first |-> first[i].id])
          /\ UNCHANGED <<_savePending, saveStatus>>
     ELSE /\ _strokes' = _strokes \o first
          /\ _scheduleSave(first)
          /\ UNCHANGED _deletePending

_applyInverse(entry) ==
  IF entry.type = "add"
  THEN /\ _strokes' = SelectSeq(_strokes, LAMBDA s : s.id \notin Ids(entry.strokes))
       /\ _scheduleDelete([i \in DOMAIN entry.strokes |-> entry.strokes[i].id])
       /\ UNCHANGED <<_savePending, saveStatus>>
  ELSE /\ _strokes' = _strokes \o entry.strokes
       /\ _scheduleSave(entry.strokes)
       /\ UNCHANGED _deletePending

(* an undo or redo that fits the page to the screen again                 *)
HistoryFrameFitting ==
  /\ _fitToScreen /\ ViewFrame
  /\ UNCHANGED <<pageId, layers, activeLayerIdx, tool, _images, gestureVars,
                 _selection, _moveStart, _copyBuffer, inputVars, nextId>>

HistoryFrame ==
  UNCHANGED <<pageId, layers, activeLayerIdx, tool, _images, gestureVars,
              _selection, _moveStart, _copyBuffer, inputVars, viewVars, nextId>>
HistoryIdle ==
  UNCHANGED <<_strokes, _undoStack, _redoStack, _savePending, _deletePending,
              _autoSaveTimer, saveStatus>>

undo ==
  /\ IF Len(_undoStack) = 0 THEN HistoryIdle
     ELSE LET entry == _undoStack[Len(_undoStack)]
          IN /\ _undoStack' = SubSeq(_undoStack, 1, Len(_undoStack) - 1)
             /\ _applyInverse(entry)
             /\ _redoStack' = Append(_redoStack, Inverse(entry))
  /\ HistoryFrame

redo ==
  /\ IF Len(_redoStack) = 0 THEN HistoryIdle
     ELSE LET entry == _redoStack[Len(_redoStack)]
          IN /\ _redoStack' = SubSeq(_redoStack, 1, Len(_redoStack) - 1)
             /\ _applyInverse(entry)
             /\ _undoStack' = Append(_undoStack, Inverse(entry))
  /\ HistoryFrame

(* ------------------------------- layers ------------------------------- *)
(* this.layers[this.activeLayerIdx]; the model's index is 1-based.        *)
HasLayer == activeLayerIdx \in DOMAIN layers
ActiveLayer == layers[activeLayerIdx]

setActiveLayer(idx) ==
  /\ activeLayerIdx' = Max({1, Min({idx, Len(layers)})})
  /\ UNCHANGED <<pageId, layers, tool, _strokes, _images, _undoStack, _redoStack,
                 _savePending, _deletePending, _autoSaveTimer, saveStatus,
                 gestureVars, _selection, _moveStart, _copyBuffer, inputVars, viewVars, nextId>>

(* ------------------------------- eraser ------------------------------- *)
(* a hit test that takes in the rim of the eraser                        *)
WithinRadiusClosed(p, x, y, radius) ==
  /\ Abs(p.x - x) <= radius /\ Abs(p.y - y) <= radius
  /\ (p.x - x) * (p.x - x) + (p.y - y) * (p.y - y) <= radius * radius

(* Math.hypot(p.x - x, p.y - y) < radius, squared; a point further than   *)
(* radius along an axis is not squared                                    *)
WithinRadius(p, x, y, radius) ==
  /\ Abs(p.x - x) < radius /\ Abs(p.y - y) < radius
  /\ (p.x - x) * (p.x - x) + (p.y - y) * (p.y - y) < radius * radius

EraserHit(s, x, y, radius) ==
  /\ s.layerId = ActiveLayer.id
  /\ Len(s.points) > 0
  /\ \E i \in DOMAIN s.points : WithinRadius(s.points[i], x, y, radius)

(* _eraseAt(x, y, radius): assigns _strokes, the history and the pending  *)
(* sets.                                                                  *)
_eraseAt(x, y, radius) ==
  IF ~HasLayer
  THEN UNCHANGED <<_strokes, _undoStack, _redoStack, _savePending,
                   _deletePending, _autoSaveTimer, saveStatus>>
  ELSE LET toDelete == SelectSeq(_strokes, LAMBDA s : EraserHit(s, x, y, radius))
       IN /\ _strokes' = SelectSeq(_strokes, LAMBDA s : ~EraserHit(s, x, y, radius))
          /\ IF Len(toDelete) > 0
             THEN /\ _pushUndo([type |-> "delete", strokes |-> toDelete])
                  /\ _scheduleDelete([i \in DOMAIN toDelete |-> toDelete[i].id])
                  /\ UNCHANGED <<_savePending, saveStatus>>
             ELSE UNCHANGED <<_undoStack, _redoStack, _savePending,
                              _deletePending, _autoSaveTimer, saveStatus>>

(* ------------------------------ selection ----------------------------- *)
HasSel == Len(_selection) = 1
Sel == _selection[1]
ImgRect(img) == [x |-> img.x, y |-> img.y, w |-> img.width, h |-> img.height]

(* _unionBbox over the non-null bboxes (each bbox is a 0/1-length seq)    *)
_unionBbox(bboxes) ==
  LET valid == {b[1] : b \in {c \in bboxes : Len(c) = 1}}
  IN IF valid = {} THEN <<>>
     ELSE LET x  == Min({b.x : b \in valid})
              y  == Min({b.y : b \in valid})
              x2 == Max({b.x + b.w : b \in valid})
              y2 == Max({b.y + b.h : b \in valid})
          IN <<[x |-> x, y |-> y, w |-> x2 - x, h |-> y2 - y]>>

SelBbox(sel) ==
  _unionBbox({sel.strokes[i].bbox : i \in DOMAIN sel.strokes}
             \cup {<<ImgRect(sel.images[i])>> : i \in DOMAIN sel.images})

InRect(x, y, b) == x >= b.x /\ x <= b.x + b.w /\ y >= b.y /\ y <= b.y + b.h
Padded(b) == [x |-> b.x - SELECT_PAD, y |-> b.y - SELECT_PAD,
              w |-> b.w + 2 * SELECT_PAD, h |-> b.h + 2 * SELECT_PAD]
Corners(e) == <<[id |-> "nw", hx |-> e.x, hy |-> e.y],
                [id |-> "ne", hx |-> e.x + e.w, hy |-> e.y],
                [id |-> "se", hx |-> e.x + e.w, hy |-> e.y + e.h],
                [id |-> "sw", hx |-> e.x, hy |-> e.y + e.h]>>
(* Math.hypot(x - c.hx, y - c.hy) < HR, with HR = 14 / scale; the corners  *)
(* that pass, in the order the loop visits them                           *)
HandlesAt(x, y, e) ==
  LET HR == Div(HANDLE_RADIUS, scale)
  IN SelectSeq(Corners(e), LAMBDA c :
       (x - c.hx) * (x - c.hx) + (y - c.hy) * (y - c.hy) < HR * HR)
ResizeMode(id) == CASE id = "nw" -> "resize-nw" [] id = "ne" -> "resize-ne"
                    [] id = "se" -> "resize-se" [] OTHER -> "resize-sw"

(* [...list].reverse().find(test): the last element that passes           *)
FindLast(list, Test(_)) ==
  LET hits == {i \in DOMAIN list : Test(list[i])}
  IN IF hits = {} THEN <<>> ELSE <<list[Max(hits)]>>

StrokeHit(s, x, y) == Len(s.bbox) = 1 /\ InRect(x, y, s.bbox[1])

(* _selectStart(x, y): assigns _selection and _moveStart                  *)
_selectStart(x, y) ==
  LET bb == IF HasSel THEN SelBbox(Sel) ELSE <<>>
      hitImage  == FindLast(_images, LAMBDA img : InRect(x, y, ImgRect(img)))
      hitStroke == FindLast(_strokes, LAMBDA s : StrokeHit(s, x, y))
  IN IF Len(bb) = 1 /\ Len(HandlesAt(x, y, Padded(bb[1]))) > 0
     THEN /\ _selection' = <<[Sel EXCEPT !._dragMode =
                                  ResizeMode(HandlesAt(x, y, Padded(bb[1]))[1].id)]>>
          /\ UNCHANGED _moveStart
     ELSE IF Len(bb) = 1 /\ InRect(x, y, Padded(bb[1]))
     THEN /\ _moveStart' = <<[x |-> x, y |-> y, origStrokes |-> Sel.strokes,
                              origImages |-> Sel.images]>>
          /\ UNCHANGED _selection
     ELSE IF Len(hitImage) = 1
     THEN /\ _selection' = <<[strokes |-> <<>>, images |-> hitImage, _dragMode |-> ""]>>
          /\ _moveStart' = <<[x |-> x, y |-> y, origStrokes |-> <<>>,
                              origImages |-> hitImage]>>
     ELSE IF Len(hitStroke) = 1
     THEN /\ _selection' = <<[strokes |-> hitStroke, images |-> <<>>, _dragMode |-> ""]>>
          /\ _moveStart' = <<[x |-> x, y |-> y, origStrokes |-> hitStroke,
                              origImages |-> <<>>]>>
     ELSE /\ _selection' = <<>>
          /\ UNCHANGED _moveStart

MovePoint(p, dx, dy) == [p EXCEPT !.x = p.x + dx, !.y = p.y + dy]
MoveStroke(s, dx, dy) ==
  [s EXCEPT !.points = [i \in DOMAIN s.points |-> MovePoint(s.points[i], dx, dy)],
            !.bbox = IF Len(s.bbox) = 1
                     THEN <<[s.bbox[1] EXCEPT !.x = s.bbox[1].x + dx, !.y = s.bbox[1].y + dy]>>
                     ELSE <<>>]
MoveImage(img, dx, dy) == [img EXCEPT !.x = img.x + dx, !.y = img.y + dy]

(* list.map(s => ids.has(s.id) ? (moved.find(m => m.id === s.id) ?? s) : s) *)
ReplaceById(list, ids, moved) ==
  [i \in DOMAIN list |->
     IF list[i].id \in ids /\ \E k \in DOMAIN moved : moved[k].id = list[i].id
     THEN moved[Min({k \in DOMAIN moved : moved[k].id = list[i].id})]
     ELSE list[i]]

(* _applyMoveToSelection(dx, dy, origStrokes, origImages): assigns         *)
(* _strokes, _images and _selection                                       *)
_applyMoveToSelection(dx, dy, origStrokes, origImages) ==
  IF ~HasSel THEN UNCHANGED <<_strokes, _images, _selection>>
  ELSE LET movedStrokes == [i \in DOMAIN origStrokes |-> MoveStroke(origStrokes[i], dx, dy)]
           movedImages  == [i \in DOMAIN origImages |-> MoveImage(origImages[i], dx, dy)]
       IN /\ _strokes' = ReplaceById(_strokes, Ids(Sel.strokes), movedStrokes)
          /\ _images'  = ReplaceById(_images, Ids(Sel.images), movedImages)
          /\ _selection' = <<[Sel EXCEPT !.strokes = movedStrokes, !.images = movedImages]>>

(* --------------------------- pointer handlers ------------------------- *)
(* An event e is [pointerId, pointerType, isPrimary, x, y], x and y being  *)
(* the page-local position _screenToPage gives.  The tools handled are    *)
(* pen, eraser and select.                                                *)
_DRAW_TOOLS == {"pen", "marker", "highlighter", "eraser", "line", "rect", "circle", "arrow"}
(* a dot on a tap for the eraser as well                                 *)
DotToolsAndEraser == {"pen", "marker", "highlighter", "eraser"}
(* a tap is discarded whatever the tool                                  *)
DotToolsNone == {}
(* the tools for which a tap places a dot                                 *)
DotTools == {"pen", "marker", "highlighter"}

(* a stroke that always goes to the bottom layer                         *)
NewStrokeOnFirstLayer(id, layerId, pts, bbox) ==
  [id |-> id, layerId |-> layers[1].id, pageId |-> pageId, tool |-> tool,
   points |-> pts, bbox |-> bbox]

NewStroke(id, layerId, pts, bbox) ==
  [id |-> id, layerId |-> layerId, pageId |-> pageId, tool |-> tool,
   points |-> pts, bbox |-> bbox]

(* a commit that records no command                                       *)
CommitNoUndo(stroke) ==
  /\ _strokes' = Append(_strokes, stroke)
  /\ UNCHANGED <<_undoStack, _redoStack>>
  /\ _scheduleSave(<<stroke>>)
  /\ nextId' = nextId + 1
  /\ UNCHANGED <<_deletePending, _images, _selection, _moveStart>>

(* the stroke part of a commit: push onto the model, record, schedule     *)
Commit(stroke) ==
  /\ _strokes' = Append(_strokes, stroke)
  /\ _pushUndo([type |-> "add", strokes |-> <<stroke>>])
  /\ _scheduleSave(<<stroke>>)
  /\ nextId' = nextId + 1
  /\ UNCHANGED <<_deletePending, _images, _selection, _moveStart>>

NoEdit == UNCHANGED <<_strokes, _images, _undoStack, _redoStack, _savePending,
                      _deletePending, _autoSaveTimer, saveStatus, _selection,
                      _moveStart, nextId>>

(* a pan test in which a drawing tool keeps every touch from panning      *)
StartsPanIdleToolOnly(e) ==
  \/ e.pointerType = "touch" /\ e.isPrimary /\ tool \notin _DRAW_TOOLS
  \/ ~(_palmRejection /\ e.pointerType = "touch") /\ _spaceDown

(* the three tests of _onDown that start a pan, in the code's order: the  *)
(* palm-rejection return stands between the second and the third          *)
StartsPan(e) ==
  \/ e.pointerType = "touch" /\ e.isPrimary /\ ~_penNearby
  \/ e.pointerType = "touch" /\ e.isPrimary /\ tool \notin _DRAW_TOOLS
  \/ ~(_palmRejection /\ e.pointerType = "touch") /\ _spaceDown

_onDown(e) ==
  /\ UNCHANGED <<pageId, layers, activeLayerIdx, tool, _copyBuffer, inputVars>>
  /\ IF _twoFingerActive THEN UNCHANGED viewVars
     ELSE IF StartsPan(e) THEN PanStart(e) /\ _stopInertia
     ELSE _stopInertia /\ UNCHANGED <<scale, offsetX, offsetY, _g, _panStart, _panVel>>
  /\ IF _twoFingerActive THEN UNCHANGED gestureVars /\ NoEdit
     ELSE IF StartsPan(e)
     THEN /\ _panning' = TRUE
          /\ _drawing' = FALSE
          /\ _drawingPointerId' = IF _drawing THEN 0 ELSE _drawingPointerId
          /\ _points' = IF _drawing THEN <<>> ELSE _points
          /\ NoEdit
     ELSE IF \/ _palmRejection /\ e.pointerType = "touch"
             \/ ~HasLayer
             \/ ActiveLayer.locked
             \/ ~ActiveLayer.visible
     THEN /\ _drawing' = FALSE
          /\ _drawingPointerId' = IF _drawing THEN 0 ELSE _drawingPointerId
          /\ _points' = IF _drawing THEN <<>> ELSE _points
          /\ UNCHANGED _panning
          /\ NoEdit
     ELSE /\ _drawing' = TRUE
          /\ _drawingPointerId' = e.pointerId
          /\ _points' = <<[x |-> e.x, y |-> e.y]>>
          /\ UNCHANGED _panning
          /\ IF tool = "eraser"
             THEN /\ _eraseAt(e.x, e.y, width * ERASER_FACTOR)
                  /\ UNCHANGED <<_images, _selection, _moveStart, nextId>>
             ELSE IF tool = "select"
             THEN /\ _selectStart(e.x, e.y)
                  /\ UNCHANGED <<_strokes, _images, _undoStack, _redoStack, _savePending,
                                 _deletePending, _autoSaveTimer, saveStatus, nextId>>
             ELSE NoEdit

(* _livePreview(pt) for the tools that change state while dragging        *)
_livePreview(x, y) ==
  IF tool = "eraser"
  THEN /\ _eraseAt(x, y, width * ERASER_FACTOR)
       /\ UNCHANGED <<_images, _selection, _moveStart, nextId>>
  ELSE IF tool = "select" /\ Len(_moveStart) = 1 /\ HasSel
  THEN /\ _applyMoveToSelection(x - _moveStart[1].x, y - _moveStart[1].y,
                                _moveStart[1].origStrokes, _moveStart[1].origImages)
       /\ UNCHANGED <<_undoStack, _redoStack, _savePending, _deletePending,
                      _autoSaveTimer, saveStatus, _moveStart, nextId>>
  ELSE NoEdit

(* a pan test that never passes                                           *)
PansNever(e) == FALSE

(* the pan test of _onMove, past its two-finger return                    *)
Pans(e) == ~_twoFingerActive /\ _panning /\ Len(_panStart) = 1

(* _onMove(e); _penNearby is left to the proximity listener, which runs   *)
(* on the same event                                                      *)
_onMove(e) ==
  /\ UNCHANGED <<pageId, layers, activeLayerIdx, tool, _copyBuffer,
                 _twoFingerActive, _palmRejection, _spaceDown>>
  /\ IF Pans(e) THEN PanMove(e) ELSE UNCHANGED viewVars
  /\ IF \/ _twoFingerActive
        \/ Pans(e)
        \/ ~_drawing
        \/ _drawingPointerId # 0 /\ e.pointerId # _drawingPointerId
        \/ _palmRejection /\ e.pointerType = "touch"
     THEN UNCHANGED gestureVars /\ NoEdit
     ELSE /\ _points' = Append(_points, [x |-> e.x, y |-> e.y])
          /\ UNCHANGED <<_drawing, _drawingPointerId, _panning>>
          /\ _livePreview(e.x, e.y)

_onCancel(e) ==
  /\ UNCHANGED <<pageId, layers, activeLayerIdx, tool, _copyBuffer, inputVars, viewVars>>
  /\ NoEdit
  /\ IF (_drawingPointerId # 0 /\ e.pointerId # _drawingPointerId) \/ ~_drawing
     THEN UNCHANGED gestureVars
     ELSE /\ _drawing' = FALSE
          /\ _drawingPointerId' = 0
          /\ _points' = <<>>
          /\ _panning' = FALSE

(* _finishSelect(pts): assigns _selection, _moveStart and the pending set *)
_finishSelect(pts) ==
  IF HasSel /\ Sel._dragMode # ""
  THEN /\ _selection' = <<[Sel EXCEPT !._dragMode = ""]>>
       /\ _scheduleSave(Sel.strokes)
       /\ UNCHANGED _moveStart
  ELSE IF Len(_moveStart) = 1
  THEN LET lastPt == pts[Len(pts)]
           dx == lastPt.x - _moveStart[1].x
           dy == lastPt.y - _moveStart[1].y
       IN IF Abs(dx) < MOVE_EPS /\ Abs(dy) < MOVE_EPS
          THEN /\ _moveStart' = <<>>
               /\ UNCHANGED <<_selection, _savePending, _autoSaveTimer, saveStatus>>
          ELSE IF ~HasSel
          THEN \* this._selection.images throws: the handler stops here
               UNCHANGED <<_selection, _moveStart, _savePending, _autoSaveTimer, saveStatus>>
          ELSE /\ _scheduleSave(Sel.strokes)
               /\ _moveStart' = <<>>
               /\ UNCHANGED _selection
  ELSE LET xs == {pts[i].x : i \in DOMAIN pts}
           ys == {pts[i].y : i \in DOMAIN pts}
           r  == [x |-> Min(xs), y |-> Min(ys), w |-> Max(xs) - Min(xs), h |-> Max(ys) - Min(ys)]
           insideStrokes == SelectSeq(_strokes, LAMBDA s :
                              /\ Len(s.bbox) = 1
                              /\ s.bbox[1].x >= r.x /\ s.bbox[1].y >= r.y
                              /\ s.bbox[1].x + s.bbox[1].w <= r.x + r.w
                              /\ s.bbox[1].y + s.bbox[1].h <= r.y + r.h)
           insideImages == SelectSeq(_images, LAMBDA img :
                              /\ img.x >= r.x /\ img.y >= r.y
                              /\ img.x + img.width <= r.x + r.w
                              /\ img.y + img.height <= r.y + r.h)
       IN /\ _selection' = IF (r.w < RUBBER_EPS /\ r.h < RUBBER_EPS)
                              \/ (Len(insideStrokes) = 0 /\ Len(insideImages) = 0)
                           THEN <<>>
                           ELSE <<[strokes |-> insideStrokes, images |-> insideImages,
                                   _dragMode |-> ""]>>
          /\ UNCHANGED <<_moveStart, _savePending, _autoSaveTimer, saveStatus>>

(* _onUp(e) past its pan test: assigns _drawing, _drawingPointerId,       *)
(* _points and what a commit assigns                                      *)
_onUpStroke(e) ==
  IF ~_drawing \/ (_drawingPointerId # 0 /\ e.pointerId # _drawingPointerId)
  THEN UNCHANGED <<_drawing, _drawingPointerId, _points>> /\ NoEdit
  ELSE /\ _drawing' = FALSE
       /\ _drawingPointerId' = 0
       /\ UNCHANGED _points
       /\ IF ~HasLayer THEN NoEdit
          ELSE IF Len(_points) < 2
          THEN IF Len(_points) = 1 /\ tool \in DotTools
               THEN LET p == _points[1]
                    IN Commit(NewStroke(nextId, ActiveLayer.id,
                           <<p, MovePoint(p, DOT_OFFSET, DOT_OFFSET)>>,
                           <<[x |-> p.x - width \div 2, y |-> p.y - width \div 2,
                              w |-> width, h |-> width]>>))
               ELSE NoEdit
          ELSE IF tool = "eraser" THEN NoEdit
          ELSE IF tool = "select"
          THEN /\ _finishSelect(_points)
               /\ UNCHANGED <<_strokes, _images, _undoStack, _redoStack,
                              _deletePending, nextId>>
          ELSE Commit(NewStroke(nextId, ActiveLayer.id, _points, _computeBbox(_points)))

_onUp(e) ==
  /\ UNCHANGED <<pageId, layers, activeLayerIdx, tool, _copyBuffer, inputVars>>
  /\ IF _panning THEN PanEnd(e) ELSE UNCHANGED viewVars
  /\ IF _panning
     THEN /\ _panning' = FALSE
          /\ UNCHANGED <<_drawing, _drawingPointerId, _points>>
          /\ NoEdit
     ELSE /\ UNCHANGED _panning
          /\ _onUpStroke(e)

(* ------------------------ keyboard / toolbar -------------------------- *)
EditFrame == UNCHANGED <<pageId, layers, activeLayerIdx, tool, gestureVars, inputVars, viewVars>>

_selectAll ==
  /\ _selection' = <<[strokes |-> _strokes, images |-> _images, _dragMode |-> ""]>>
  /\ EditFrame
  /\ UNCHANGED <<_strokes, _images, _undoStack, _redoStack, _savePending, _deletePending,
                 _autoSaveTimer, saveStatus, _moveStart, _copyBuffer, nextId>>

_deleteSelection ==
  /\ HasSel
  /\ _pushUndo([type |-> "delete", strokes |-> Sel.strokes])
  /\ _strokes' = SelectSeq(_strokes, LAMBDA s : s.id \notin Ids(Sel.strokes))
  /\ _scheduleDelete([i \in DOMAIN Sel.strokes |-> Sel.strokes[i].id])
  /\ _images' = SelectSeq(_images, LAMBDA img : img.id \notin Ids(Sel.images))
  /\ _selection' = <<>>
  /\ EditFrame
  /\ UNCHANGED <<_savePending, saveStatus, _moveStart, _copyBuffer, nextId>>

_copySelection ==
  /\ HasSel
  /\ _copyBuffer' = <<[strokes |-> Sel.strokes, images |-> Sel.images]>>
  /\ EditFrame
  /\ UNCHANGED <<_strokes, _images, _undoStack, _redoStack, _savePending, _deletePending,
                 _autoSaveTimer, saveStatus, _selection, _moveStart, nextId>>

PasteStroke(s, id) ==
  [s EXCEPT !.id = id, !.layerId = ActiveLayer.id,
            !.points = [i \in DOMAIN s.points |->
                          MovePoint(s.points[i], PASTE_OFFSET, PASTE_OFFSET)],
            !.bbox = IF Len(s.bbox) = 1
                     THEN <<[s.bbox[1] EXCEPT !.x = s.bbox[1].x + PASTE_OFFSET,
                                              !.y = s.bbox[1].y + PASTE_OFFSET]>>
                     ELSE <<>>]

(* images carry no pasted copies here: no image is ever in the buffer     *)
_pasteSelection ==
  /\ Len(_copyBuffer) = 1
  /\ HasLayer
  /\ LET buf == _copyBuffer[1]
         newStrokes == [i \in DOMAIN buf.strokes |-> PasteStroke(buf.strokes[i], nextId + i - 1)]
     IN /\ _strokes' = _strokes \o newStrokes
        /\ _pushUndo([type |-> "add", strokes |-> newStrokes])
        /\ _scheduleSave(newStrokes)
        /\ _copyBuffer' = <<[strokes |-> newStrokes, images |-> <<>>]>>
        /\ nextId' = nextId + Len(newStrokes)
  /\ EditFrame
  /\ UNCHANGED <<_images, _deletePending, _selection, _moveStart>>

setTool(t) ==
  /\ tool' = t
  /\ _drawing' = FALSE
  /\ _selection' = IF t # "select" /\ t # "lasso" THEN <<>> ELSE _selection
  /\ UNCHANGED <<pageId, layers, activeLayerIdx, _strokes, _images, _undoStack,
                 _redoStack, _savePending, _deletePending, _autoSaveTimer, saveStatus,
                 _drawingPointerId, _points, _panning, _moveStart, _copyBuffer,
                 inputVars, viewVars, nextId>>

(* ------------------------------ the store ----------------------------- *)
(* The strokes table, rows in insertion (sort_order) order.               *)
Row(st, layerId, page) ==
  [id |-> st.id, layer_id |-> layerId, page_id |-> page, tool |-> st.tool,
   points |-> st.points, bbox |-> st.bbox]

(* INSERT OR REPLACE: id is the primary key                               *)
InsertOrReplace(db, row) ==
  Append(SelectSeq(db, LAMBDA r : r.id # row.id), row)

RECURSIVE PostBatch(_, _, _, _)
(* POST /api/strokes/batch                                                *)
PostBatch(db, page, layerId, strokes) ==
  IF Len(strokes) = 0 THEN db
  ELSE PostBatch(InsertOrReplace(db, Row(Head(strokes), layerId, page)),
                 page, layerId, Tail(strokes))

(* DELETE /api/strokes: DELETE FROM strokes WHERE id = ? AND page_id = ?  *)
DeleteStrokes(db, page, ids) ==
  SelectSeq(db, LAMBDA r : ~(r.id \in Range(ids) /\ r.page_id = page))

(* DELETE /api/strokes/page/:pageId?layerId=                              *)
DeletePageStrokes(db, page, layerId) ==
  SelectSeq(db, LAMBDA r : ~(r.page_id = page /\ r.layer_id = layerId))

(* the rows the layers table holds for a page when the editor starts,    *)
(* ORDER BY sort_order                                                    *)
LayerDefs(p) ==
  [k \in 1..LayersPerPage |->
     [id |-> (p - 1) * LayersPerPage + k, visible |-> TRUE, locked |-> FALSE,
      opacity |-> 100]]

(* DELETE /api/pages/:pageId/layers/:layerId: refused (400) when the page *)
(* has one layer left; otherwise DELETE FROM layers WHERE id = ? AND      *)
(* page_id = ?, and the strokes of a deleted layer go with it (layer_id   *)
(* REFERENCES layers(id) ON DELETE CASCADE, foreign_keys = ON).           *)
LayerRefused(dbl, page) == Len(dbl[page]) <= 1

DeleteLayerRow(dbl, page, layerId) ==
  IF LayerRefused(dbl, page) THEN dbl
  ELSE [dbl EXCEPT ![page] = SelectSeq(@, LAMBDA r : r.id # layerId)]

DeleteLayerCascade(db, dbl, page, layerId) ==
  IF LayerRefused(dbl, page) \/ layerId \notin Ids(dbl[page]) THEN db
  ELSE SelectSeq(db, LAMBDA r : r.layer_id # layerId)

(* The page_images table, rows in insertion (sort_order) order; a row's   *)
(* bitmap and rotation are left out.                                      *)
(* POST /api/strokes/images: INSERT INTO page_images under the id the     *)
(* route makes                                                            *)
PostImage(dbi, id, page, layerId, img) ==
  Append(dbi, [id |-> id, page_id |-> page, layer_id |-> layerId,
               x |-> img.x, y |-> img.y, width |-> img.width, height |-> img.height])

(* PATCH /api/strokes/images/:id: UPDATE page_images SET x = COALESCE(?,  *)
(* x), ... WHERE id = ?                                                   *)
PatchImage(dbi, id, img) ==
  [i \in DOMAIN dbi |->
     IF dbi[i].id = id
     THEN [dbi[i] EXCEPT !.x = img.x, !.y = img.y, !.width = img.width,
                         !.height = img.height]
     ELSE dbi[i]]

(* DELETE /api/strokes/images/:id: DELETE FROM page_images WHERE id = ?   *)
DeleteImage(dbi, id) == SelectSeq(dbi, LAMBDA r : r.id # id)

(* GET /api/export/page/:id                                               *)
ExportPage(db, p) ==
  [page |-> p, layers |-> dbLayers[p],
   strokes |-> SelectSeq(db, LAMBDA r : r.page_id = p),
   images |-> SelectSeq(dbImages, LAMBDA r : r.page_id = p)]

(* ------------------------------- flush -------------------------------- *)
(* a de-duplication that keeps the first occurrence of an id              *)
DedupeKeepFirst(toSave) ==
  LET firsts == SelectSeq(Indices(Len(toSave)), LAMBDA i :
                   \A j \in 1..(i - 1) : toSave[j].id # toSave[i].id)
  IN [k \in DOMAIN firsts |-> toSave[firsts[k]]]

(* [...new Map(toSave.map(s => [s.id, s])).values()]: one entry per id,   *)
(* at the place of its first occurrence, holding its last occurrence      *)
Dedupe(toSave) ==
  LET firsts == SelectSeq(Indices(Len(toSave)), LAMBDA i :
                   \A j \in 1..(i - 1) : toSave[j].id # toSave[i].id)
      last(id) == Max({i \in DOMAIN toSave : toSave[i].id = id})
  IN [k \in DOMAIN firsts |-> toSave[last(toSave[firsts[k]].id)]]

(* s.layerId || layer.id *)
Lid(s, layerId) == IF s.layerId # 0 THEN s.layerId ELSE layerId

(* the keys of the Map groups, in insertion order                         *)
GroupKeys(toSave, layerId) ==
  LET d == Dedupe(toSave)
      firsts == SelectSeq(Indices(Len(d)), LAMBDA i :
                   \A j \in 1..(i - 1) : Lid(d[j], layerId) # Lid(d[i], layerId))
  IN [k \in DOMAIN firsts |-> Lid(d[firsts[k]], layerId)]

Group(toSave, layerId, lid) ==
  SelectSeq(Dedupe(toSave), LAMBDA s : Lid(s, layerId) = lid)

(* the request a flush task is awaiting                                   *)
Request(f) ==
  IF f.pc = "delete"
  THEN [method |-> "DELETE", pageId |-> f.reqPage, layerId |-> 0,
        ids |-> f.toDelete, strokes |-> <<>>]
  ELSE [method |-> "POST", pageId |-> f.reqPage,
        layerId |-> GroupKeys(f.toSave, f.layerId)[f.gi], ids |-> <<>>,
        strokes |-> Group(f.toSave, f.layerId, GroupKeys(f.toSave, f.layerId)[f.gi])]

Serve(db, req) ==
  IF req.method = "DELETE" THEN DeleteStrokes(db, req.pageId, req.ids)
  ELSE PostBatch(db, req.pageId, req.layerId, req.strokes)

RemoveAt(seq, i) == SubSeq(seq, 1, i - 1) \o SubSeq(seq, i + 1, Len(seq))

(* _flushSave up to its first await: assigns the pending sets, saveStatus, *)
(* flushes, upsertIssued and lastFlush.  A task holds the locals toSave, toDelete    *)
(* and layer, the request it awaits (pc, gi: the group's index), and      *)
(* three notes of the observer: whether forceSave started it, whether it  *)
(* drained what a failed flush had put back, and whether the store has    *)
(* accepted every request so far.                                         *)
_flushSave(forced) ==
  IF pageId = 0 \/ ~HasLayer
  THEN UNCHANGED <<_savePending, _deletePending, saveStatus, flushes, upsertIssued,
                   lastFlush>>
  ELSE LET f == [toSave |-> _savePending, toDelete |-> _deletePending,
                 layerId |-> ActiveLayer.id, reqPage |-> pageId,
                 pc |-> IF Len(_deletePending) > 0 THEN "delete" ELSE "batch",
                 gi |-> IF Len(_deletePending) > 0 THEN 0 ELSE 1,
                 forced |-> forced,
                 retry |-> Len(lastFlush) = 1 /\ lastFlush[1].outcome = "failed",
                 accepted |-> TRUE]
       IN /\ _savePending' = <<>>
          /\ _deletePending' = <<>>
          /\ IF Len(f.toDelete) = 0 /\ Len(f.toSave) = 0
             THEN /\ saveStatus' = "Saved"
                  /\ UNCHANGED <<flushes, upsertIssued, lastFlush>>
             ELSE /\ flushes' = Append(flushes, f)
                  /\ upsertIssued' = upsertIssued \cup Ids(Request(f).strokes)
                  /\ lastFlush' = <<>>
                  /\ UNCHANGED saveStatus

(* a catch block that reports and puts nothing back                       *)
FlushCatchDrop(f) ==
  /\ saveStatus' = "Save failed"
  /\ UNCHANGED <<_savePending, _deletePending>>

(* the catch block: report, re-queue                                      *)
FlushCatch(f) ==
  /\ saveStatus' = "Save failed"
  /\ _savePending' = _savePending \o f.toSave
  /\ _deletePending' = _deletePending \o f.toDelete

(* _flushSave resumed by the settling of the fetch it awaits.  A fetch    *)
(* that rejects ("neterr": the request was lost, "lost": the response     *)
(* was) reaches the catch block; one that resolves, with any status       *)
(* ("ok", "reject"), goes on to the next request or to the end.           *)
Outcomes == {"ok", "reject", "neterr", "lost"}

FlushResume(i, outcome) ==
  LET f == flushes[i]
      more == IF f.pc = "delete" THEN Len(f.toSave) > 0
              ELSE f.gi < Len(GroupKeys(f.toSave, f.layerId))
      acc  == f.accepted /\ outcome # "reject"
      next == [f EXCEPT !.pc = "batch", !.gi = f.gi + 1, !.reqPage = pageId,
                        !.accepted = acc]
      note(o) == <<[forced |-> f.forced, retry |-> f.retry, accepted |-> acc,
                    outcome |-> o]>>
  IN /\ dbStrokes' = IF outcome \in {"ok", "lost"} THEN Serve(dbStrokes, Request(f))
                     ELSE dbStrokes
     /\ IF outcome \in {"neterr", "lost"}
        THEN /\ FlushCatch(f)
             /\ flushes' = RemoveAt(flushes, i)
             /\ lastFlush' = note("failed")
             /\ UNCHANGED upsertIssued
        ELSE IF more
        THEN /\ flushes' = [flushes EXCEPT ![i] = next]
             /\ upsertIssued' = upsertIssued \cup Ids(Request(next).strokes)
             /\ UNCHANGED <<_savePending, _deletePending, saveStatus, lastFlush>>
        ELSE /\ flushes' = RemoveAt(flushes, i)
             /\ saveStatus' = "Saved"
             /\ lastFlush' = note("saved")
             /\ UNCHANGED <<_savePending, _deletePending, upsertIssued>>
     /\ UNCHANGED <<pageId, layers, activeLayerIdx, tool, _strokes, _images, _undoStack,
                    _redoStack, _autoSaveTimer, gestureVars, _selection, _moveStart,
                    _copyBuffer, inputVars, viewVars, nextId>>

SyncFrame == UNCHANGED <<pageId, layers, activeLayerIdx, tool, _strokes, _images,
                         _undoStack, _redoStack, gestureVars, _selection, _moveStart,
                         _copyBuffer, inputVars, viewVars, nextId>>

(* the debounce timer's callback *)
TimerFlush ==
  /\ _autoSaveTimer' = FALSE
  /\ _flushSave(FALSE)
  /\ SyncFrame

forceSave ==
  /\ _autoSaveTimer' = FALSE
  /\ _flushSave(TRUE)
  /\ SyncFrame

(* ------------------------------ loadPage ------------------------------ *)
FromRow(r) ==
  [id |-> r.id, layerId |-> r.layer_id, pageId |-> r.page_id, tool |-> r.tool,
   points |-> r.points, bbox |-> r.bbox]

FromImageRow(r) ==
  [id |-> r.id, layerId |-> r.layer_id, x |-> r.x, y |-> r.y, width |-> r.width,
   height |-> r.height]

loadPage(pageData) ==
  /\ _drawing' = FALSE
  /\ _drawingPointerId' = 0
  /\ _points' = <<>>
  /\ _panning' = FALSE
  /\ pageId' = pageData.page
  /\ _strokes' = [i \in DOMAIN pageData.strokes |-> FromRow(pageData.strokes[i])]
  /\ _images' = [i \in DOMAIN pageData.images |-> FromImageRow(pageData.images[i])]
  /\ _undoStack' = <<>>
  /\ _redoStack' = <<>>
  /\ _savePending' = <<>>
  /\ _deletePending' = <<>>
  /\ layers' = pageData.layers
  /\ activeLayerIdx' = Max({1, Len(pageData.layers)})
  /\ _fitToScreen
  /\ ViewFrame
  /\ UNCHANGED <<tool, _autoSaveTimer, saveStatus, _selection, _moveStart,
                 _copyBuffer, inputVars, nextId>>

(* clearPage up to its await: the DELETE request is issued, not scheduled *)
clearPage ==
  /\ HasLayer
  /\ LET deleted == SelectSeq(_strokes, LAMBDA s : s.layerId = ActiveLayer.id)
     IN /\ _strokes' = SelectSeq(_strokes, LAMBDA s : s.layerId # ActiveLayer.id)
        /\ _pushUndo([type |-> "delete", strokes |-> deleted])
  /\ clearReqs' = Append(clearReqs, [pageId |-> pageId, layerId |-> ActiveLayer.id])
  /\ EditFrame
  /\ UNCHANGED <<_images, _savePending, _deletePending, _autoSaveTimer, saveStatus,
                 _selection, _moveStart, _copyBuffer, nextId>>

(* --------------------------- layers, images --------------------------- *)
(* updateLayerProp(idx, prop, val); opacity is in percent                 *)
updateLayerProp(idx, prop, val) ==
  /\ layers' = IF idx \in DOMAIN layers
                THEN [layers EXCEPT ![idx] = [@ EXCEPT ![prop] = val]]
                ELSE layers
  /\ UNCHANGED <<pageId, activeLayerIdx, tool, _strokes, _images, _undoStack, _redoStack,
                 _savePending, _deletePending, _autoSaveTimer, saveStatus, gestureVars,
                 _selection, _moveStart, _copyBuffer, inputVars, viewVars, nextId>>

(* insertImage(dataUrl) up to its await: the image, 300 px wide and high, *)
(* in the middle of the page, under the id the client made (101)          *)
insertImage ==
  /\ _images' = Append(_images,
        [id |-> 101, layerId |-> ActiveLayer.id,
         x |-> (PageW - 6000) \div 2, y |-> (PageH - 6000) \div 2,
         width |-> 6000, height |-> 6000])
  /\ UNCHANGED <<pageId, layers, activeLayerIdx, tool, _strokes, _undoStack, _redoStack,
                 _savePending, _deletePending, _autoSaveTimer, saveStatus, gestureVars,
                 _selection, _moveStart, _copyBuffer, inputVars, viewVars, nextId>>

(* insertImage after its await: the image takes the id the server made    *)
(* (102)                                                                  *)
insertImageResume ==
  /\ _images' = [i \in DOMAIN _images |->
                   IF _images[i].id = 101 THEN [_images[i] EXCEPT !.id = 102]
                   ELSE _images[i]]
  /\ UNCHANGED <<pageId, layers, activeLayerIdx, tool, _strokes, _undoStack, _redoStack,
                 _savePending, _deletePending, _autoSaveTimer, saveStatus, gestureVars,
                 _selection, _moveStart, _copyBuffer, inputVars, viewVars, nextId>>

(* ---------------------------- deleteLayer ----------------------------- *)
(* deleteLayer(idx) up to its await: a task holds idx, the layer l read   *)
(* at the call and the page id put into the request's URL.               *)
deleteLayer(idx) ==
  /\ IF Len(layers) <= 1 THEN UNCHANGED layerReqs
     ELSE layerReqs' = Append(layerReqs, [call |-> "deleteLayer", idx |-> idx,
                                         l |-> layers[idx], page |-> pageId])
  /\ UNCHANGED engineVars

(* a resume that leaves the active index as it was                        *)
deleteLayerResumeUnclamped(f) ==
  /\ _strokes' = SelectSeq(_strokes, LAMBDA s : s.layerId # f.l.id)
  /\ layers' = IF f.idx \in DOMAIN layers THEN RemoveAt(layers, f.idx) ELSE layers
  /\ UNCHANGED activeLayerIdx

(* deleteLayer after its await: the response is not read; the strokes of  *)
(* l leave the model, layers.splice(idx, 1) removes what is at idx now    *)
(* (nothing when idx is past the end), the active index is clamped.       *)
deleteLayerResume(f) ==
  /\ _strokes' = SelectSeq(_strokes, LAMBDA s : s.layerId # f.l.id)
  /\ layers' = IF f.idx \in DOMAIN layers THEN RemoveAt(layers, f.idx) ELSE layers
  /\ activeLayerIdx' = Min({activeLayerIdx, Len(layers')})

(* ------------------------------ addLayer ------------------------------ *)
(* POST /api/pages/:id/layers: a row with a new id is inserted after the  *)
(* page's rows and is the answer.  The id is a uuid: here the n-th row    *)
(* the route creates has the n-th id after those of the rows the pages    *)
(* started with.                                                          *)
NewLayerRow(n) ==
  [id |-> NumPages * LayersPerPage + n, visible |-> TRUE, locked |-> FALSE,
   opacity |-> 100]

AddLayerRow(dbl, page, n) == [dbl EXCEPT ![page] = Append(@, NewLayerRow(n))]

(* addLayer(name) up to its await: a task holds the page id put into the  *)
(* request's URL                                                          *)
addLayer ==
  /\ layerReqs' = Append(layerReqs, [call |-> "addLayer", page |-> pageId])
  /\ UNCHANGED engineVars

(* addLayer after its awaits: the row ld of the answer is pushed onto the *)
(* layer list and becomes the active layer                                *)
addLayerResume(ld) ==
  /\ layers' = Append(layers, [id |-> ld.id, visible |-> TRUE, locked |-> FALSE,
                               opacity |-> 100])
  /\ activeLayerIdx' = Len(layers')
  /\ UNCHANGED _strokes

(* ----------------------------- editor glue ---------------------------- *)
(* loadPageIntoEditor(idx) up to the GET it awaits: the store answers     *)
(* with the page as it is now                                             *)
loadPageIntoEditor(p) ==
  /\ nav' = Append(nav, ExportPage(dbStrokes, p))
  /\ UNCHANGED <<engineVars, flushes, upsertIssued, lastFlush, dbStrokes, clearReqs,
                 dbLayers, dbImages, layerReqs, phase>>

(* closeEditor: forceSave() is called and not awaited                     *)
closeEditor ==
  /\ forceSave
  /\ editorOpen' = FALSE
  /\ UNCHANGED <<dbStrokes, clearReqs, dbLayers, dbImages, layerReqs, nav, phase>>

(* ------------------------------- Init --------------------------------- *)
InitWith(db) ==
  /\ pageId = 0 /\ layers = <<>> /\ activeLayerIdx = 1 /\ tool = "pen"
  /\ _strokes = <<>> /\ _images = <<>>
  /\ _undoStack = <<>> /\ _redoStack = <<>>
  /\ _savePending = <<>> /\ _deletePending = <<>>
  /\ _autoSaveTimer = FALSE /\ saveStatus = ""
  /\ _drawing = FALSE /\ _drawingPointerId = 0 /\ _points = <<>>
  /\ _selection = <<>> /\ _moveStart = <<>> /\ _copyBuffer = <<>>
  /\ _panning = FALSE /\ _twoFingerActive = FALSE /\ _penNearby = FALSE
  /\ _palmRejection = TRUE /\ _spaceDown = FALSE
  /\ scale = 20 /\ offsetX = 0 /\ offsetY = 0
  /\ _g = <<>> /\ _panStart = <<>> /\ _panVel = [x |-> 0, y |-> 0] /\ _panRafId = <<>>
  /\ nextId = 1
  /\ flushes = <<>> /\ upsertIssued = {} /\ lastFlush = <<>>
  /\ dbStrokes = db /\ clearReqs = <<>>
  /\ dbLayers = [p \in PageIds |-> LayerDefs(p)] /\ layerReqs = <<>>
  /\ dbImages = <<>>
  /\ editorOpen = FALSE /\ nav = <<>>
  /\ phase = [stage |-> "free", commits |-> 0, calls |-> 0, snap |-> <<>>]

(* the engine just constructed, the store empty                           *)
Init == InitWith(<<>>)

(* ---------------------------- environment ----------------------------- *)
(* The user and the network.  The stylus is pointer 1; P1 and P2 are the  *)
(* places it touches, (20 px, 20 px) and (60 px, 20 px).  phase is the    *)
(* observer's notebook: the stage of a scripted run, its counts, and a    *)
(* snapshot of strokes.                                                   *)
P1 == [x |-> 400, y |-> 400]
P2 == [x |-> 1200, y |-> 400]
(* _screenToPage(clientX, clientY)                                        *)
_screenToPage(clientX, clientY) ==
  [x |-> Div(Sub(clientX, offsetX), scale), y |-> Div(Sub(clientY, offsetY), scale)]

(* A pointer event at the place pt, which is given from where the corner  *)
(* of a fitted page is on the screen: clientX and clientY, the point      *)
(* x, y the handlers get from _screenToPage, and dt, the ms since the     *)
(* pointer's last event.                                                  *)
ScreenOrigin == [x |-> 400, y |-> 1280]
PointerEvent(id, type, primary, pt) ==
  LET cx == pt.x + ScreenOrigin.x
      cy == pt.y + ScreenOrigin.y
  IN [pointerId |-> id, pointerType |-> type, isPrimary |-> primary,
      clientX |-> cx, clientY |-> cy, dt |-> IdleMs,
      x |-> _screenToPage(cx, cy).x, y |-> _screenToPage(cx, cy).y]
Pen(pt) == PointerEvent(1, "pen", TRUE, pt)
(* the second pointermove listener: a stylus event marks the stylus near  *)
PenProximity(e) ==
  _penNearby' = IF e.pointerType = "pen" THEN TRUE ELSE _penNearby

Rest0 == UNCHANGED <<flushes, upsertIssued, lastFlush, dbStrokes, clearReqs, dbLayers, dbImages,
                     layerReqs, appVars>>
Rest == Rest0 /\ UNCHANGED phase
(* what a failed flush would put back counts towards the room left       *)
InFlightSave == IF flushes = <<>> THEN 0 ELSE Len(flushes[1].toSave)
InFlightDelete == IF flushes = <<>> THEN 0 ELSE Len(flushes[1].toDelete)
PendingRoom ==
  /\ Len(_savePending) + InFlightSave < MaxPending
  /\ Len(_deletePending) + InFlightDelete < MaxPending
IdRoom(n) == nextId + n - 1 <= MaxStrokes
HistoryRoom == Len(_undoStack) < MaxHistory

OpenEditor(p) ==
  /\ ~editorOpen /\ Len(nav) = 0
  /\ editorOpen' = TRUE
  /\ nav' = Append(nav, ExportPage(dbStrokes, p))
  /\ UNCHANGED <<engineVars, flushes, upsertIssued, lastFlush, dbStrokes, clearReqs,
                 dbLayers, dbImages, layerReqs, phase>>

NavTo(p) ==
  /\ editorOpen /\ Len(nav) = 0 /\ pageId # 0 /\ p # pageId
  /\ loadPageIntoEditor(p)
  /\ UNCHANGED editorOpen

NavLoaded ==
  /\ Len(nav) = 1
  /\ loadPage(nav[1])
  /\ nav' = <<>>
  /\ lastFlush' = <<>>
  /\ UNCHANGED <<flushes, upsertIssued, dbStrokes, clearReqs, dbLayers, dbImages, layerReqs,
                 editorOpen, phase>>

NavFailed ==
  /\ Len(nav) = 1
  /\ nav' = <<>>
  /\ UNCHANGED <<engineVars, flushes, upsertIssued, lastFlush, dbStrokes, clearReqs,
                 dbLayers, dbImages, layerReqs, editorOpen, phase>>

CloseEditor ==
  /\ editorOpen /\ flushes = <<>>
  /\ closeEditor

PointerDown(pt) ==
  /\ editorOpen /\ PendingRoom
  /\ (tool = "pen") => IdRoom(1)
  /\ (tool = "eraser") => HistoryRoom
  /\ _onDown(Pen(pt)) /\ Rest

PointerMove(pt) ==
  /\ editorOpen /\ _drawing /\ Len(_points) < MaxPoints /\ PendingRoom
  /\ ~(HasSel /\ Sel._dragMode # "")
  /\ _onMove(Pen(pt)) /\ PenProximity(Pen(pt)) /\ Rest

PointerUp ==
  /\ editorOpen /\ _drawing
  /\ _onUp(Pen([x |-> 0, y |-> 0])) /\ Rest

PointerCancel ==
  /\ editorOpen /\ _drawing
  /\ _onCancel(Pen([x |-> 0, y |-> 0])) /\ Rest

(* The other pointers: a finger that is the first touch contact (pointer  *)
(* 2, primary), a further finger or the palm (pointer 3) and the mouse    *)
(* (pointer 4).                                                           *)
Touch(pt) == PointerEvent(2, "touch", TRUE, pt)
Palm(pt) == PointerEvent(3, "touch", FALSE, pt)
Mouse(pt) == PointerEvent(4, "mouse", TRUE, pt)
(* the event e at the place where the pan in progress began               *)
Still(e) ==
  IF _panning /\ Len(_panStart) = 1
  THEN [e EXCEPT !.clientX = _panStart[1].x, !.clientY = _panStart[1].y]
  ELSE e
Pointers(pt) == {Pen(pt), Touch(pt), Palm(pt), Mouse(pt)}

(* A touch contact is primary only when no other touch contact is active, *)
(* and touchend ends a two-finger gesture when a finger of it lifts: the  *)
(* first finger never lands during a two-finger gesture.                  *)
CanLand(e) == (e.pointerType = "touch" /\ e.isPrimary) => ~_twoFingerActive

(* pointerdown on the canvas, from any pointer                            *)
DownBy(e) ==
  /\ editorOpen /\ PendingRoom /\ CanLand(e)
  /\ (tool = "pen") => IdRoom(1)
  /\ (tool = "eraser") => HistoryRoom
  /\ _onDown(e) /\ Rest

(* pointermove on the canvas: _onMove and the proximity listener          *)
MoveBy(e) ==
  /\ editorOpen /\ Len(_points) < MaxPoints /\ PendingRoom
  /\ (tool = "eraser") => HistoryRoom
  /\ ~(HasSel /\ Sel._dragMode # "")
  /\ _onMove(e) /\ PenProximity(e) /\ Rest

(* pointerup: the canvas listener calls _onUp; the event then reaches the *)
(* document listener, which calls _onUp again when a stroke of this       *)
(* pointer is still in progress, as it is after _onUp has ended a pan.    *)
UpBy(e) ==
  /\ editorOpen /\ PendingRoom
  /\ (tool = "pen") => IdRoom(1)
  /\ IF _panning /\ _drawing /\ ~(_drawingPointerId # 0 /\ e.pointerId # _drawingPointerId)
     THEN /\ UNCHANGED <<pageId, layers, activeLayerIdx, tool, _copyBuffer, inputVars>>
          /\ PanEnd(e)
          /\ _panning' = FALSE
          /\ _onUpStroke(e)
     ELSE _onUp(e)
  /\ Rest

(* pointercancel: the canvas listener; the document listener finds        *)
(* nothing left to cancel                                                 *)
CancelBy(e) == editorOpen /\ _onCancel(e) /\ Rest

InputFrame ==
  UNCHANGED <<pageId, layers, activeLayerIdx, tool, _strokes, _images, _undoStack,
              _redoStack, _savePending, _deletePending, _autoSaveTimer, saveStatus,
              _drawing, _drawingPointerId, _points, _selection, _moveStart,
              _copyBuffer, nextId>>

(* where two fingers land on the screen, 40 px apart, and where they are  *)
(* when spread to 80 px                                                   *)
Finger1 == [x |-> 2600, y |-> 2000]
Finger2 == [x |-> 3400, y |-> 2000]
Spread1 == [x |-> 2200, y |-> 2000]
Spread2 == [x |-> 3800, y |-> 2000]

(* touchstart on the canvas area with two touches                         *)
TwoFingerStart ==
  /\ editorOpen /\ ~_twoFingerActive
  /\ touchstart(Finger1, Finger2)
  /\ UNCHANGED <<_penNearby, _palmRejection, _spaceDown>>
  /\ InputFrame /\ Rest

(* touchend / touchcancel: _endGesture                                    *)
TwoFingerEnd ==
  /\ editorOpen /\ _twoFingerActive
  /\ _endGesture(IdleMs)
  /\ UNCHANGED <<_panning, _penNearby, _palmRejection, _spaceDown>>
  /\ InputFrame /\ Rest

(* 800 ms without a stylus event, or pointerleave of the stylus           *)
PenAway ==
  /\ editorOpen /\ _penNearby
  /\ _penNearby' = FALSE
  /\ UNCHANGED <<_panning, _twoFingerActive, _palmRejection, _spaceDown, viewVars>>
  /\ InputFrame /\ Rest

setPalmRejection(v) ==
  /\ _palmRejection' = v
  /\ UNCHANGED <<_panning, _twoFingerActive, _penNearby, _spaceDown, viewVars>>
  /\ InputFrame

SetPalmRejection(v) == editorOpen /\ v # _palmRejection /\ setPalmRejection(v) /\ Rest

(* the layer panel's buttons, and updateLayerProp called for the opacity  *)
UpdateLayerProp(idx, prop, val) ==
  /\ editorOpen /\ idx \in DOMAIN layers /\ layers[idx][prop] # val
  /\ updateLayerProp(idx, prop, val) /\ Rest

(* the image picker: one image is put on the page                         *)
InsertImage == editorOpen /\ HasLayer /\ _images = <<>> /\ insertImage /\ Rest
InsertImageSettles ==
  /\ \E i \in DOMAIN _images : _images[i].id = 101
  /\ insertImageResume
  /\ LET img == CHOOSE m \in Range(_images) : m.id = 101
     IN dbImages' = PostImage(dbImages, 102, pageId, img.layerId, img)
  /\ UNCHANGED <<flushes, upsertIssued, lastFlush, dbStrokes, clearReqs, dbLayers,
                 layerReqs, appVars, phase>>

(* --------------------------- viewport input --------------------------- *)
(* The observer counts the events that move the viewport in phase.calls   *)
(* and lets MaxViewOps of them happen; none of them moves the page out of *)
(* ViewRoom.                                                              *)
ViewBudget == phase.calls < MaxViewOps
(* the corner of the page stays within MaxOffset of the area's corner     *)
ViewRoom == Abs(offsetX') <= MaxOffset /\ Abs(offsetY') <= MaxOffset
Spend == phase' = [phase EXCEPT !.calls = @ + 1]

(* the toolbar's fit button: fitToScreen()                                *)
FitToScreen ==
  /\ editorOpen /\ ViewBudget
  /\ _fitToScreen /\ ViewFrame
  /\ UNCHANGED <<_panning, inputVars>>
  /\ InputFrame /\ Rest0 /\ Spend

(* setZoom(s) without a centre: the centre of the canvas area             *)
SetZoom(s) ==
  /\ editorOpen /\ ViewBudget
  /\ setZoom(s, Fl(AreaW, 2), Fl(AreaH, 2)) /\ ViewFrame
  /\ UNCHANGED <<_panning, inputVars>>
  /\ InputFrame /\ Rest0 /\ Spend
  /\ ViewRoom

(* wheel on the canvas area                                               *)
Wheel(e) ==
  /\ editorOpen /\ ViewBudget
  /\ _onWheel(e)
  /\ UNCHANGED <<_panning, inputVars>>
  /\ InputFrame /\ Rest0 /\ Spend
  /\ ViewRoom

(* the wheel events: Ctrl+wheel in, far in and far out over the place     *)
(* (25 px, 75 px) of the area, and a scroll by (3 px, 1 px)               *)
WheelEvents ==
  {[ctrlKey |-> TRUE, deltaX |-> 0, deltaY |-> dy, clientX |-> 500, clientY |-> 1500] :
      dy \in {-35, -1500, 1500}}
  \cup {[ctrlKey |-> FALSE, deltaX |-> 60, deltaY |-> 20, clientX |-> 500, clientY |-> 1500]}

(* keydown and keyup of the space bar                                     *)
KeySpace(v) ==
  /\ editorOpen /\ v # _spaceDown
  /\ _spaceDown' = v
  /\ UNCHANGED <<_panning, _twoFingerActive, _penNearby, _palmRejection, viewVars>>
  /\ InputFrame /\ Rest

(* the event e, FrameMs after the pointer's last event                    *)
Quick(e) == [e EXCEPT !.dt = FrameMs]

(* pointermove while the page is being panned                             *)
PanBy(e) ==
  /\ editorOpen /\ _panning /\ ~_twoFingerActive /\ ViewBudget
  /\ PendingRoom /\ HistoryRoom
  /\ _onMove(e) /\ PenProximity(e)
  /\ Rest0 /\ Spend
  /\ ViewRoom

(* touchmove with two touches                                             *)
TwoFingerMove(t0, t1) ==
  /\ editorOpen /\ _twoFingerActive /\ ViewBudget
  /\ touchmove(t0, t1, FrameMs)
  /\ UNCHANGED <<_panning, inputVars>>
  /\ InputFrame /\ Rest0 /\ Spend
  /\ ViewRoom

(* the animation frame the inertia asked for                              *)
InertiaFrame ==
  /\ Len(_panRafId) = 1
  /\ step
  /\ UNCHANGED <<scale, _g, _panStart, _panVel>>
  /\ UNCHANGED <<_panning, inputVars>>
  /\ InputFrame /\ Rest
  /\ ViewRoom

KeyUndo == editorOpen /\ PendingRoom /\ undo /\ Rest
KeyRedo == editorOpen /\ PendingRoom /\ redo /\ Rest
KeySelectAll == editorOpen /\ _selectAll /\ Rest
KeyDelete == editorOpen /\ PendingRoom /\ HistoryRoom /\ _deleteSelection /\ Rest
KeyCopy == editorOpen /\ _copySelection /\ Rest
KeyPaste ==
  /\ editorOpen /\ PendingRoom /\ HistoryRoom /\ Len(_copyBuffer) = 1
  /\ IdRoom(Len(_copyBuffer[1].strokes))
  /\ _pasteSelection /\ Rest
(* _onKey for Escape: none of its tests matches the key, and the keydown  *)
(* listeners of the page close dialogs only.  The observer counts the     *)
(* presses modulo 2.                                                      *)
_onKeyEscape == UNCHANGED engineVars
KeyEscape ==
  /\ editorOpen /\ _onKeyEscape /\ Rest0
  /\ phase' = [phase EXCEPT !.calls = (@ + 1) % 2]
SetTool(t) == editorOpen /\ t # tool /\ setTool(t) /\ Rest
SetActiveLayer(idx) ==
  /\ editorOpen /\ idx \in DOMAIN layers /\ idx # activeLayerIdx
  /\ setActiveLayer(idx) /\ Rest
ClearPage ==
  /\ editorOpen /\ Len(clearReqs) = 0 /\ HistoryRoom
  /\ clearPage
  /\ UNCHANGED <<flushes, upsertIssued, lastFlush, dbStrokes, dbLayers, dbImages, layerReqs,
                 appVars, phase>>
ClearServed ==
  /\ Len(clearReqs) > 0
  /\ dbStrokes' = DeletePageStrokes(dbStrokes, clearReqs[1].pageId, clearReqs[1].layerId)
  /\ clearReqs' = Tail(clearReqs)
  /\ UNCHANGED <<engineVars, flushes, upsertIssued, lastFlush, dbLayers, dbImages, layerReqs,
                 appVars, phase>>

(* the delete button of a layer item, confirmed                           *)
DeleteLayerCall(idx) ==
  /\ editorOpen /\ idx \in DOMAIN layers /\ Len(layerReqs) < MaxLayerCalls
  /\ deleteLayer(idx)
  /\ UNCHANGED <<flushes, upsertIssued, lastFlush, dbStrokes, clearReqs, dbLayers, dbImages,
                 appVars, phase>>

(* the fetch of the i-th deleteLayer call settles: the store answers     *)
(* ("ok", with whatever status), or the request ("neterr") or the        *)
(* response ("lost") does not get through and the fetch rejects.         *)
DeleteLayerSettles(i, outcome) ==
  /\ i \in DOMAIN layerReqs /\ layerReqs[i].call = "deleteLayer"
  /\ LET f == layerReqs[i]
     IN /\ IF outcome \in {"ok", "lost"}
           THEN /\ dbLayers' = DeleteLayerRow(dbLayers, f.page, f.l.id)
                /\ dbStrokes' = DeleteLayerCascade(dbStrokes, dbLayers, f.page, f.l.id)
                /\ dbImages' = DeleteLayerCascade(dbImages, dbLayers, f.page, f.l.id)
           ELSE UNCHANGED <<dbLayers, dbStrokes, dbImages>>
        /\ IF outcome = "ok"
           THEN deleteLayerResume(f)
           ELSE UNCHANGED <<_strokes, layers, activeLayerIdx>>
  /\ layerReqs' = RemoveAt(layerReqs, i)
  /\ UNCHANGED <<pageId, tool, _images, _undoStack, _redoStack, _savePending,
                 _deletePending, _autoSaveTimer, saveStatus, gestureVars, _selection,
                 _moveStart, _copyBuffer, inputVars, viewVars, nextId>>
  /\ UNCHANGED <<flushes, upsertIssued, lastFlush, clearReqs, appVars, phase>>

(* the add-layer button; phase.calls counts the rows the route has        *)
(* created                                                                *)
AddsInFlight == Len(SelectSeq(layerReqs, LAMBDA f : f.call = "addLayer"))

AddLayerCall ==
  /\ editorOpen /\ pageId # 0 /\ Len(layerReqs) < MaxLayerCalls
  /\ phase.calls + AddsInFlight < MaxAdds
  /\ addLayer
  /\ UNCHANGED <<flushes, upsertIssued, lastFlush, dbStrokes, clearReqs, dbLayers, dbImages,
                 appVars, phase>>

(* the fetch of the i-th call, an addLayer, settles: the store inserts    *)
(* the row and answers ("ok"), or the request ("neterr") or the response  *)
(* ("lost") does not get through, the fetch rejects and addLayer throws   *)
AddLayerSettles(i, outcome) ==
  /\ i \in DOMAIN layerReqs /\ layerReqs[i].call = "addLayer"
  /\ LET f == layerReqs[i]
     IN /\ IF outcome \in {"ok", "lost"}
           THEN /\ dbLayers' = AddLayerRow(dbLayers, f.page, phase.calls + 1)
                /\ phase' = [phase EXCEPT !.calls = @ + 1]
           ELSE UNCHANGED <<dbLayers, phase>>
        /\ IF outcome = "ok"
           THEN addLayerResume(NewLayerRow(phase.calls + 1))
           ELSE UNCHANGED <<_strokes, layers, activeLayerIdx>>
  /\ layerReqs' = RemoveAt(layerReqs, i)
  /\ UNCHANGED <<pageId, tool, _images, _undoStack, _redoStack, _savePending,
                 _deletePending, _autoSaveTimer, saveStatus, gestureVars, _selection,
                 _moveStart, _copyBuffer, inputVars, viewVars, nextId>>
  /\ UNCHANGED <<flushes, upsertIssued, lastFlush, dbStrokes, dbImages, clearReqs, appVars>>

(* setActiveLayer(idx) called with any index, also one past either end   *)
(* of the list                                                            *)
SetActiveLayerAt(idx) == editorOpen /\ setActiveLayer(idx) /\ Rest

TimerFires ==
  /\ _autoSaveTimer /\ flushes = <<>>
  /\ TimerFlush
  /\ UNCHANGED <<dbStrokes, clearReqs, dbLayers, dbImages, layerReqs, appVars, phase>>

FlushSettles(outcome) ==
  /\ flushes # <<>>
  /\ FlushResume(1, outcome)
  /\ UNCHANGED <<clearReqs, dbLayers, dbImages, layerReqs, appVars, phase>>

(* The sync queue: one page, pen taps, undo and redo, layer switches,     *)
(* the debounce timer, the flush and its requests, and closing the        *)
(* editor (the forced flush).                                             *)
NextSync ==
  \/ pageId = 0 /\ OpenEditor(1)
  \/ NavLoaded
  \/ CloseEditor
  \/ PointerDown(P1)
  \/ PointerUp
  \/ KeyUndo
  \/ KeyRedo
  \/ \E i \in 1..LayersPerPage : SetActiveLayer(i)
  \/ TimerFires
  \/ \E o \in Outcomes : FlushSettles(o)

SpecSync == Init /\ [][NextSync]_vars

(* The batches of a flush: pen taps, selection drags that move a stroke,  *)
(* undo, layer switches, the timer and the flush.                         *)
NextBatch ==
  \/ pageId = 0 /\ OpenEditor(1)
  \/ NavLoaded
  \/ PointerDown(P1)
  \/ tool = "select" /\ PointerMove(P2)
  \/ PointerUp
  \/ KeyUndo
  \/ \E t \in {"pen", "select"} : SetTool(t)
  \/ \E i \in 1..LayersPerPage : SetActiveLayer(i)
  \/ TimerFires
  \/ FlushSettles("ok")

SpecBatch == Init /\ [][NextBatch]_vars

(* Navigation: opening, turning pages and closing, with pen taps,         *)
(* selection clicks, the timer and the flush.                             *)
NextNav ==
  \/ \E p \in PageIds : OpenEditor(p)
  \/ \E p \in PageIds : NavTo(p)
  \/ NavLoaded
  \/ NavFailed
  \/ CloseEditor
  \/ PointerDown(P1)
  \/ PointerUp
  \/ PointerCancel
  \/ \E t \in {"pen", "select"} : SetTool(t)
  \/ TimerFires
  \/ \E o \in {"ok", "neterr"} : FlushSettles(o)

SpecNav == Init /\ [][NextNav]_vars

(* The round trip: pen taps, selection drags that move a stroke, undo     *)
(* (the observer notes the versions the model holds of the strokes the    *)
(* undone command names) and redo.  Nothing is flushed.                   *)
Current(ids) == SelectSeq(_strokes, LAMBDA s : s.id \in ids)
Top(stack) == stack[Len(stack)]

KeyUndoNoted ==
  /\ editorOpen /\ PendingRoom /\ undo /\ Rest0
  /\ phase' = [phase EXCEPT !.snap = IF _undoStack = <<>> THEN <<>>
                                     ELSE Current(Ids(Top(_undoStack).strokes))]

NextRoundTrip ==
  \/ pageId = 0 /\ OpenEditor(1)
  \/ NavLoaded
  \/ PointerDown(P1)
  \/ tool = "select" /\ PointerMove(P2)
  \/ PointerUp
  \/ KeyUndoNoted
  \/ KeyRedo
  \/ \E t \in {"pen", "select"} : SetTool(t)

SpecRoundTrip == Init /\ [][NextRoundTrip]_vars

(* Editing: pen taps, eraser taps, select-all, delete, copy, paste, clear  *)
(* page, undo and redo.  Nothing is flushed.                              *)
NextEdit ==
  \/ pageId = 0 /\ OpenEditor(1)
  \/ NavLoaded
  \/ PointerDown(P1)
  \/ PointerUp
  \/ KeyUndo
  \/ KeyRedo
  \/ KeySelectAll
  \/ KeyDelete
  \/ KeyCopy
  \/ KeyPaste
  \/ \E t \in {"pen", "eraser"} : SetTool(t)
  \/ ClearPage
  \/ ClearServed

SpecEdit == Init /\ [][NextEdit]_vars

(* Input: the four pointers pressing, moving, lifting and being           *)
(* cancelled, two-finger gestures, the stylus leaving, the palm-rejection *)
(* setting and the tools.  While the page is being panned the pointers    *)
(* stay where the pan began, and the two fingers of a gesture lift        *)
(* without moving.  Nothing is flushed.                                   *)
NextInput ==
  \/ pageId = 0 /\ OpenEditor(1)
  \/ NavLoaded
  \/ \E e \in Pointers(P1) : DownBy(e)
  \/ \E e \in Pointers(P2) : MoveBy(Still(e))
  \/ \E e \in Pointers(P2) : UpBy(e)
  \/ \E e \in Pointers(P2) : CancelBy(e)
  \/ TwoFingerStart
  \/ TwoFingerEnd
  \/ PenAway
  \/ \E v \in BOOLEAN : SetPalmRejection(v)
  \/ \E t \in {"pen", "eraser", "select"} : SetTool(t)

SpecInput == Init /\ [][NextInput]_vars

(* Gestures of the stylus that end by pointerup, by pointercancel or by a *)
(* tool switch.  The observer notes, at the pointerdown that starts a     *)
(* gesture, what the engine records: the model, the history and the       *)
(* pending sets.  Nothing is flushed.                                     *)
Recorded == <<_strokes, _images, _undoStack, _redoStack, _savePending, _deletePending>>

GestureDown(pt) ==
  /\ editorOpen /\ PendingRoom /\ ~_drawing /\ ~_panning
  /\ (tool = "pen") => IdRoom(1)
  /\ (tool = "eraser") => HistoryRoom
  /\ _onDown(Pen(pt)) /\ Rest0
  /\ _drawing'
  /\ phase' = [phase EXCEPT !.stage = "gesture", !.snap = Recorded]

GestureMove(pt) == phase.stage = "gesture" /\ _drawing /\ MoveBy(Pen(pt))

GestureUp(pt) ==
  /\ editorOpen /\ PendingRoom /\ phase.stage = "gesture" /\ _drawing
  /\ (tool = "pen") => IdRoom(1)
  /\ _onUp(Pen(pt)) /\ Rest0
  /\ phase' = [phase EXCEPT !.stage = "free"]

GestureCancel ==
  /\ editorOpen /\ phase.stage = "gesture" /\ _drawing
  /\ _onCancel(Pen(P1)) /\ Rest0
  /\ phase' = [phase EXCEPT !.stage = "cancelled"]

GestureSetTool(t) ==
  /\ editorOpen /\ phase.stage = "gesture" /\ _drawing /\ t # tool
  /\ setTool(t) /\ Rest0
  /\ phase' = [phase EXCEPT !.stage = "cancelled"]

NextGesture ==
  \/ pageId = 0 /\ OpenEditor(1)
  \/ NavLoaded
  \/ \E pt \in {P1, P2} : GestureDown(pt)
  \/ \E pt \in {P1, P2} : GestureMove(pt)
  \/ \E pt \in {P1, P2} : GestureUp(pt)
  \/ GestureCancel
  \/ \E t \in {"pen", "eraser", "select"} : GestureSetTool(t)
  \/ \E t \in {"pen", "eraser", "select"} : ~_drawing /\ SetTool(t)

SpecGesture == Init /\ [][NextGesture]_vars

(* Erasing on a page of several layers: pen taps and drags, the eraser   *)
(* pressed and dragged, and layer switches.  PEdge lies at the eraser's   *)
(* radius (12.5 px) from P1.  Nothing is flushed.                         *)
PEdge == [x |-> P1.x + width * ERASER_FACTOR, y |-> P1.y]
ErasePlaces == {P1, P2, PEdge}

NextErase ==
  \/ pageId = 0 /\ OpenEditor(1)
  \/ NavLoaded
  \/ \E pt \in {P1, PEdge} : PointerDown(pt)
  \/ PointerMove(P2)
  \/ PointerUp
  \/ \E t \in {"pen", "eraser"} : SetTool(t)
  \/ \E idx \in 1..LayersPerPage : SetActiveLayer(idx)

SpecErase == Init /\ [][NextErase]_vars

(* Selecting: pen taps and drags, the select tool pressed, dragged and   *)
(* lifted, select-all, Escape and tool switches.  Nothing is flushed.     *)
NextSelect ==
  \/ pageId = 0 /\ OpenEditor(1)
  \/ NavLoaded
  \/ \E pt \in {P1, P2} : PointerDown(pt)
  \/ PointerMove(P2)
  \/ PointerUp
  \/ KeySelectAll
  \/ KeyEscape
  \/ \E t \in {"pen", "select"} : SetTool(t)

SpecSelect == Init /\ [][NextSelect]_vars

(* Nudging: a pen tap, then the select tool pressed on the stroke,       *)
(* dragged by 1 px (to PNear) or by 40 px (to P2) and lifted.  Nothing is *)
(* flushed.                                                               *)
PNear == [x |-> P1.x + MOVE_EPS \div 2, y |-> P1.y]

NextNudge ==
  \/ pageId = 0 /\ OpenEditor(1)
  \/ NavLoaded
  \/ GestureDown(P1)
  \/ \E pt \in {PNear, P2} : GestureMove(pt)
  \/ GestureUp(P1)
  \/ \E t \in {"pen", "select"} : ~_drawing /\ SetTool(t)

SpecNudge == Init /\ [][NextNudge]_vars

(* The viewport.  The stylus taps a dot on the fitted page; from then on  *)
(* the view is fitted, zoomed by setZoom and by the wheel, scrolled,      *)
(* panned by a finger and by the mouse with the space bar held, pinched   *)
(* by two fingers, and it coasts after a flick that is the first thing to *)
(* move it.  While the page is held for a pan and has not moved, the      *)
(* eraser may be taken up and the stylus put down at P3; the stylus then  *)
(* moves to P1.  Nothing is flushed.                                      *)
P3 == [x |-> 1200, y |-> 1200]
(* no coast is in progress, or one that is still faster than CoastCut:    *)
(* the user lets a coast run out or stops it in its first frames          *)
Settled ==
  IF Len(_panRafId) = 0 THEN TRUE
  ELSE Abs(_panRafId[1].velX) > CoastCut \/ Abs(_panRafId[1].velY) > CoastCut
Unmoved == phase.calls = 0
Ready == Len(_strokes) = 1 /\ tool = "pen" /\ ~_spaceDown /\ Settled
NextView ==
  \/ pageId = 0 /\ OpenEditor(1)
  \/ NavLoaded
  \/ _strokes = <<>> /\ ~_drawing /\ DownBy(Pen(P1))
  \/ _strokes = <<>> /\ UpBy(Pen(P1))
  \/ Ready /\ FitToScreen
  \/ \E s \in {0, 300} : Ready /\ SetZoom(s)
  \/ \E e \in WheelEvents : Ready /\ Wheel(e)
  \/ Ready /\ Unmoved /\ ~_panning /\ KeySpace(TRUE)
  \/ _panning /\ KeySpace(FALSE)
  \/ Ready /\ ~_panning /\ DownBy(Touch(P1))
  \/ Len(_strokes) = 1 /\ _spaceDown /\ ~_panning /\ DownBy(Mouse(P1))
  \/ Ready /\ _panning /\ Unmoved /\ SetTool("eraser")
  \/ _panning /\ Unmoved /\ tool = "eraser" /\ ~_drawing /\ DownBy(Pen(P3))
  \/ \E e \in {Touch(PNear), Mouse(PNear)} : tool = "pen" /\ PanBy(Quick(e))
  \/ _drawing /\ PanBy(Quick(Pen(P1)))
  \/ Ready /\ _panning /\ UpBy(Touch(PNear))
  \/ Ready /\ _panning /\ phase.calls = 1 /\ UpBy(Quick(Touch(PNear)))
  \/ Ready /\ TwoFingerStart
  \/ TwoFingerMove(Finger1, Finger2)
  \/ TwoFingerMove(Spread1, Spread2)
  \/ TwoFingerEnd
  \/ InertiaFrame

SpecView == Init /\ [][NextView]_vars

(* Undo and redo over a page whose view, layers and images are not as the *)
(* load left them: dots are tapped, undone and redone while the wheel     *)
(* zooms, the active layer is hidden, locked and faded, and an image is   *)
(* put on the page.  Nothing is flushed.                                  *)
LayerProps == {<<"visible", FALSE>>, <<"locked", TRUE>>, <<"opacity", 50>>}
NextUndoView ==
  \/ pageId = 0 /\ OpenEditor(1)
  \/ NavLoaded
  \/ PointerDown(P1)
  \/ PointerUp
  \/ KeyUndo
  \/ KeyRedo
  \/ \E e \in {w \in WheelEvents : w.deltaY = -35} : Wheel(e)
  \/ \E pv \in LayerProps : UpdateLayerProp(activeLayerIdx, pv[1], pv[2])
  \/ InsertImage
  \/ InsertImageSettles

SpecUndoView == Init /\ [][NextUndoView]_vars

(* Layers: pen taps, undo, layer switches, page turns, and deleteLayer     *)
(* calls with their requests in flight.  Nothing is flushed.              *)
NextLayers ==
  \/ pageId = 0 /\ OpenEditor(1)
  \/ \E p \in PageIds : NavTo(p)
  \/ NavLoaded
  \/ PointerDown(P1)
  \/ PointerUp
  \/ KeyUndo
  \/ \E i \in 1..LayersPerPage : SetActiveLayer(i)
  \/ \E i \in 1..LayersPerPage : DeleteLayerCall(i)
  \/ \E i \in 1..MaxLayerCalls, o \in {"ok", "neterr", "lost"} : DeleteLayerSettles(i, o)

SpecLayers == Init /\ [][NextLayers]_vars

(* A scripted run on a page that holds one stored stroke: commits (pen    *)
(* taps), then undo calls, as many as there were commits, then redo       *)
(* calls.  Nothing is flushed.                                            *)
StoredStrokes ==
  <<[id |-> 0, layer_id |-> 1, page_id |-> 1, tool |-> "pen",
     points |-> <<P2, MovePoint(P2, DOT_OFFSET, DOT_OFFSET)>>,
     bbox |-> <<[x |-> P2.x - width \div 2, y |-> P2.y - width \div 2,
                 w |-> width, h |-> width]>>]>>

RunBegins ==
  /\ phase.stage = "free" /\ editorOpen /\ pageId # 0
  /\ phase' = [phase EXCEPT !.stage = "commit", !.snap = _strokes]
  /\ UNCHANGED engineVars /\ Rest0

RunTapDown ==
  /\ phase.stage = "commit" /\ ~_drawing /\ phase.commits < MaxCommits
  /\ _onDown(Pen(P1)) /\ Rest

RunTapUp ==
  /\ phase.stage = "commit" /\ _drawing
  /\ _onUp(Pen(P1)) /\ Rest0
  /\ phase' = [phase EXCEPT !.commits = @ + 1]

RunUndo ==
  /\ phase.stage \in {"commit", "undo"} /\ ~_drawing
  /\ phase.calls < phase.commits
  /\ undo /\ Rest0
  /\ phase' = [phase EXCEPT !.stage = "undo", !.calls = @ + 1]

RunRedo ==
  /\ phase.stage \in {"undo", "redo"} /\ phase.calls = phase.commits
  /\ Len(_redoStack) > 0
  /\ redo /\ Rest0
  /\ phase' = [phase EXCEPT !.stage = "redo"]

NextHistory ==
  \/ pageId = 0 /\ OpenEditor(1)
  \/ NavLoaded
  \/ RunBegins
  \/ RunTapDown
  \/ RunTapUp
  \/ RunUndo
  \/ RunRedo

SpecHistory == InitWith(StoredStrokes) /\ [][NextHistory]_vars

(* ======================= properties of the sync queue ================= *)
Drained == flushes[1]
Rows(db, id) == {k \in DOMAIN db : db[k].id = id}

(* C1: when a flush fails with a network error, every stroke and every    *)
(* delete-id it had drained is in the pending sets afterwards; and when a *)
(* forced flush that drained such put-back items has all its requests     *)
(* accepted, each stroke it drained is in the store exactly once.         *)
C1_FailedFlushRequeuedAndPersistedOnce ==
  [][ /\ \A o \in {"neterr", "lost"} : FlushSettles(o) =>
            /\ \A k \in DOMAIN Drained.toSave :
                  Drained.toSave[k] \in Range(_savePending')
            /\ \A k \in DOMAIN Drained.toDelete :
                  Drained.toDelete[k] \in Range(_deletePending')
      /\ ( /\ FlushSettles("ok")
           /\ flushes' = <<>>
           /\ Drained.forced /\ Drained.retry /\ Drained.accepted ) =>
            \A k \in DOMAIN Drained.toSave :
               Cardinality(Rows(dbStrokes', Drained.toSave[k].id)) = 1
    ]_vars

(* a forced flush of put-back strokes has ended, every request accepted   *)
C1_Witness ==
  /\ lastFlush = <<[forced |-> TRUE, retry |-> TRUE, accepted |-> TRUE,
                    outcome |-> "saved"]>>
  /\ dbStrokes # <<>>
  /\ ~editorOpen

(* C2: a flush empties both pending sets in the step that drains them;    *)
(* its first request is the delete when there are delete-ids, and no      *)
(* delete follows an upsert; every upsert is for a layer id no earlier    *)
(* upsert of the flush was for, holds every drained stroke id of that     *)
(* layer once, in the last version the drained list has of it; and a      *)
(* flush that ends has issued one upsert per layer id among its strokes.  *)
LastVersion(toSave, id) == toSave[Max({i \in DOMAIN toSave : toSave[i].id = id})]
Upsert(f, k) == Request([f EXCEPT !.pc = "batch", !.gi = k])
UpsertWellFormed(f) ==
  LET r == Request(f)
  IN /\ \A a, b \in DOMAIN r.strokes : r.strokes[a].id = r.strokes[b].id => a = b
     /\ \A a \in DOMAIN r.strokes :
           /\ r.strokes[a] = LastVersion(f.toSave, r.strokes[a].id)
           /\ r.strokes[a].layerId = r.layerId
     /\ \A a \in DOMAIN f.toSave :
           f.toSave[a].layerId = r.layerId => f.toSave[a].id \in Ids(r.strokes)
     /\ \A k \in 1..(f.gi - 1) : Upsert(f, k).layerId # r.layerId

C2_FlushDrainsAndBatches ==
  [][ /\ TimerFires =>
            /\ _savePending' = <<>> /\ _deletePending' = <<>>
            /\ flushes' # <<>> =>
                  (Request(flushes'[1]).method = "DELETE") = (Len(_deletePending) > 0)
      /\ (FlushSettles("ok") /\ flushes' # <<>>) =>
            Request(flushes'[1]).method = "POST"
      /\ (flushes' # <<>> /\ Request(flushes'[1]).method = "POST") =>
            UpsertWellFormed(flushes'[1])
      /\ (FlushSettles("ok") /\ flushes' = <<>>) =>
            Drained.gi = Cardinality({Drained.toSave[a].layerId : a \in DOMAIN Drained.toSave})
    ]_vars

(* the second upsert of a flush that began with a delete and drained two  *)
(* versions of one stroke                                                 *)
C2_Witness ==
  /\ flushes # <<>>
  /\ Drained.pc = "batch" /\ Drained.gi = 2
  /\ Len(Drained.toDelete) > 0
  /\ \E a, b \in DOMAIN Drained.toSave :
        /\ a < b /\ Drained.toSave[a].id = Drained.toSave[b].id
        /\ Drained.toSave[a].points # Drained.toSave[b].points

(* C3: whenever a request of a flush fails, by a network error or by the  *)
(* store answering with an error, the pending sets afterwards are the     *)
(* drained items united with what was enqueued meanwhile, and the status  *)
(* is 'Save failed'.                                                      *)
C3_AnyFailureRequeues ==
  [][ \A o \in {"neterr", "lost", "reject"} : FlushSettles(o) =>
         /\ Range(_savePending') = Range(_savePending) \cup Range(Drained.toSave)
         /\ Range(_deletePending') = Range(_deletePending) \cup Range(Drained.toDelete)
         /\ saveStatus' = "Save failed"
    ]_vars

(* C4: while the editor is open, pending items imply that a debounce      *)
(* timer is armed or a flush is in flight, so that they are flushed       *)
(* without a further edit.                                                *)
C4_PendingImpliesRetryScheduled ==
  (editorOpen /\ (Len(_savePending) > 0 \/ Len(_deletePending) > 0)) =>
     (_autoSaveTimer \/ flushes # <<>>)

(* ========================= properties of navigation =================== *)
(* C5: when the open page is replaced, every stroke still in the pending  *)
(* set has had an upsert issued for it.                                   *)
C5_NoPendingStrokeDroppedByNavigation ==
  [][ (NavLoaded /\ pageId # 0) =>
         \A k \in DOMAIN _savePending : _savePending[k].id \in upsertIssued
    ]_vars

(* C6: the model, the selection, the move snapshot and the pending set    *)
(* hold strokes of the open page only.                                    *)
StrokesHeld ==
  Range(_strokes) \cup Range(_savePending)
    \cup (IF HasSel THEN Range(Sel.strokes) ELSE {})
    \cup (IF Len(_moveStart) = 1 THEN Range(_moveStart[1].origStrokes) ELSE {})

C6_NoStateOfPreviousPage ==
  \A s \in StrokesHeld : s.pageId = pageId

(* ========================= properties of the history ================== *)
(* C7: a redo that follows the undo of an add command leaves in the model *)
(* the strokes of the command as the model held them before the undo.     *)
C7_UndoRedoRestoresStrokes ==
  [][ ( /\ KeyRedo
        /\ _redoStack # <<>>
        /\ Top(_redoStack).type = "delete"
        /\ phase.snap # <<>>
        /\ Ids(phase.snap) = Ids(Top(_redoStack).strokes) ) =>
          Range(SelectSeq(_strokes', LAMBDA s : s.id \in Ids(phase.snap)))
             = Range(phase.snap)
    ]_vars

(* C8: after N commits and then N undo calls, the model is the stroke     *)
(* list before the first commit and the undo stack is empty.              *)
C8_UnwindAnyN ==
  (phase.stage = "undo" /\ phase.calls = phase.commits) =>
     (_strokes = phase.snap /\ _undoStack = <<>>)

(* C8, for runs that begin with an empty undo stack and have at most      *)
(* _MAX_UNDO commits                                                      *)
C8_UnwindUpToMaxUndo ==
  (phase.stage = "undo" /\ phase.calls = phase.commits
     /\ phase.commits <= _MAX_UNDO) =>
     (_strokes = phase.snap /\ _undoStack = <<>>)

C8_Witness ==
  /\ phase.stage = "undo" /\ phase.calls = phase.commits
  /\ phase.commits = _MAX_UNDO
  /\ Len(phase.snap) > 0

(* C9: a step that records a command (a commit, an eraser hit, a paste,   *)
(* a selection delete, a clear page) leaves the redo stack empty; undo    *)
(* adds one entry to the redo stack and redo takes one entry off it.      *)
C9_NewEditClearsRedo ==
  [][ /\ ( /\ PointerDown(P1) \/ PointerUp \/ KeyPaste \/ KeyDelete \/ ClearPage
           /\ _undoStack' # _undoStack ) => _redoStack' = <<>>
      /\ (KeyUndo /\ _undoStack # <<>>) =>
            _redoStack' = Append(_redoStack, Inverse(Top(_undoStack)))
      /\ (KeyRedo /\ _redoStack # <<>>) =>
            _redoStack' = SubSeq(_redoStack, 1, Len(_redoStack) - 1)
    ]_vars

(* stroke 1 was committed and undone, then stroke 2 was committed         *)
C9_Witness ==
  /\ _redoStack = <<>>
  /\ Len(_undoStack) = 1
  /\ _undoStack[1].type = "add"
  /\ Ids(_undoStack[1].strokes) = {2}
  /\ 1 \notin Ids(_strokes)

(* C10: neither stack ever holds more than _MAX_UNDO entries, and a       *)
(* commit on a full undo stack removes its oldest entry and no other.     *)
C10_StacksBounded ==
  [][ /\ Len(_undoStack') <= _MAX_UNDO
      /\ Len(_redoStack') <= _MAX_UNDO
      /\ (RunTapUp /\ Len(_undoStack) = _MAX_UNDO) =>
            /\ Len(_undoStack') = _MAX_UNDO
            /\ SubSeq(_undoStack', 1, _MAX_UNDO - 1) = Tail(_undoStack)
            /\ _undoStack'[_MAX_UNDO].strokes = <<_strokes'[Len(_strokes')]>>
            /\ SubSeq(_strokes', 1, Len(_strokes)) = _strokes
    ]_vars

(* the 81st commit of a run has been recorded                             *)
C10_Witness ==
  /\ Len(_undoStack) = _MAX_UNDO
  /\ phase.commits > _MAX_UNDO

(* C11: an undo call on a non-empty undo stack takes the top entry off    *)
(* it and, in the same step, applies the whole inverse: for an add entry  *)
(* the model loses every stroke whose id the entry names and no other,    *)
(* and the ids are appended to pending-delete; for a delete entry the     *)
(* entry's strokes are appended to the model and to pending-create; the   *)
(* redo stack grows by one entry of the opposite kind and the same        *)
(* strokes.                                                               *)
C11_UndoAppliesWholeInverse ==
  [][ (KeyUndo /\ _undoStack # <<>>) =>
        LET entry == Top(_undoStack)
            ids == [i \in DOMAIN entry.strokes |-> entry.strokes[i].id]
        IN /\ _undoStack' = SubSeq(_undoStack, 1, Len(_undoStack) - 1)
           /\ Len(_redoStack') = Len(_redoStack) + 1
           /\ SubSeq(_redoStack', 1, Len(_redoStack)) = _redoStack
           /\ Top(_redoStack').strokes = entry.strokes
           /\ entry.type = "add" =>
                 /\ Top(_redoStack').type = "delete"
                 /\ _strokes' = SelectSeq(_strokes, LAMBDA s : s.id \notin Range(ids))
                 /\ _deletePending' = _deletePending \o ids
                 /\ _savePending' = _savePending
           /\ entry.type = "delete" =>
                 /\ Top(_redoStack').type = "add"
                 /\ _strokes' = _strokes \o entry.strokes
                 /\ _savePending' = _savePending \o entry.strokes
                 /\ _deletePending' = _deletePending
    ]_vars

(* a delete entry of two strokes has been undone: both strokes are back   *)
(* in the model and the redo stack's top is the add entry for them        *)
C11_Witness ==
  /\ _redoStack # <<>>
  /\ Top(_redoStack).type = "add"
  /\ Len(Top(_redoStack).strokes) = 2
  /\ Ids(Top(_redoStack).strokes) \subseteq Ids(_strokes)
  /\ Ids(Top(_redoStack).strokes) \subseteq Ids(_savePending)
  /\ _undoStack # <<>>

(* C12: a step of an edit (not undo, redo or the loading of a page) that  *)
(* adds strokes to the model pushes an add command holding exactly the    *)
(* strokes added, and one that removes strokes from the model pushes a    *)
(* delete command holding exactly the strokes removed.                    *)
C12_EditsAreRecorded ==
  [][ LET added   == Range(_strokes') \ Range(_strokes)
          removed == Range(_strokes) \ Range(_strokes')
      IN ~(KeyUndo \/ KeyRedo \/ NavLoaded) =>
            /\ added # {} =>
                  /\ _undoStack' # <<>>
                  /\ Top(_undoStack').type = "add"
                  /\ Range(Top(_undoStack').strokes) = added
            /\ removed # {} =>
                  /\ _undoStack' # <<>>
                  /\ Top(_undoStack').type = "delete"
                  /\ Range(Top(_undoStack').strokes) = removed
    ]_vars

(* C19: once a page is loaded, the engine's layer list is not empty.      *)
C19_LayerListNeverEmpty ==
  pageId # 0 => Len(layers) >= 1

(* ========================= properties of the input ==================== *)
Places == {P1, P2}

(* C13: while a stroke is in progress for pointer P, a pointerdown,       *)
(* pointermove, pointerup or pointercancel of another pointer changes     *)
(* neither the samples, the drawing flag, the tracked pointer id, the     *)
(* model, the history nor the pending sets.                               *)
C13_OtherPointerIsNoOp ==
  [][ \A pt \in Places : \A e \in Pointers(pt) :
        ( /\ _drawing /\ _drawingPointerId # 0 /\ e.pointerId # _drawingPointerId
          /\ DownBy(e) \/ MoveBy(e) \/ UpBy(e) \/ CancelBy(e) ) =>
            UNCHANGED <<_points, _drawing, _drawingPointerId, Recorded>>
    ]_vars

(* C14: while a two-finger gesture is active, a pointerdown, pointermove  *)
(* or pointerup changes neither the gesture state, the selection, the     *)
(* model, the history nor the pending sets.                               *)
C14_TwoFingerGestureOwnsInput ==
  [][ \A pt \in Places : \A e \in Pointers(pt) :
        (_twoFingerActive /\ (DownBy(e) \/ MoveBy(e) \/ UpBy(e))) =>
            UNCHANGED <<gestureVars, _selection, _moveStart, Recorded>>
    ]_vars

(* C15: a pan gesture and a stroke or selection gesture are never both    *)
(* active.                                                                *)
C15_OneGestureAtATime ==
  ~(_panning /\ _drawing)

(* C16: a gesture that is cancelled before it commits, by pointercancel  *)
(* or by a tool switch, leaves the strokes, the images, the history and   *)
(* the pending sets as they were before the pointerdown of the gesture,   *)
(* whatever the tool.                                                     *)
C16_CancelledGestureLeavesNoTrace ==
  phase.stage = "cancelled" => Recorded = phase.snap

(* C17: a pointerdown of the primary touch pointer while no stylus is     *)
(* near starts a pan and no stroke, whatever the tool and the             *)
(* palm-rejection setting, and records nothing.                           *)
C17_TouchWithoutStylusPans ==
  [][ \A e \in Pointers(P1) :
        (DownBy(e) /\ e.pointerType = "touch" /\ e.isPrimary /\ ~_penNearby) =>
            /\ _panning' /\ ~_drawing'
            /\ UNCHANGED <<_selection, _moveStart, Recorded>>
    ]_vars

(* a finger has started a pan with the pen tool active, palm rejection    *)
(* enabled and no stylus near (in this specification only a primary       *)
(* touch starts a pan)                                                    *)
C17_Witness ==
  /\ _panning /\ ~_drawing
  /\ tool = "pen" /\ _palmRejection /\ ~_penNearby /\ ~_twoFingerActive
  /\ _strokes # <<>>

(* C18: while palm rejection is enabled, a touch pointerdown starts no    *)
(* stroke, erase or selection gesture and a touch pointermove extends     *)
(* none; and a touch pointerdown with a drawing tool active and the       *)
(* stylus near changes neither the gesture state nor what is recorded.    *)
C18_PalmRejectionIgnoresTouch ==
  [][ \A pt \in Places : \A e \in Pointers(pt) :
        (_palmRejection /\ e.pointerType = "touch") =>
            /\ DownBy(e) => ~(_drawing' /\ _drawingPointerId' = e.pointerId)
            /\ MoveBy(e) => UNCHANGED <<_points, _selection, _moveStart, Recorded>>
            /\ (DownBy(e) /\ tool \in _DRAW_TOOLS /\ _penNearby) =>
                  UNCHANGED <<gestureVars, _selection, _moveStart, Recorded>>
    ]_vars

(* C20: a gesture of the eraser adds no stroke to the model and nothing   *)
(* to the pending upserts.  Each of its pointer events only removes       *)
(* strokes, keeps the others as they are, and records the strokes it      *)
(* removes as one delete command and appends their ids to the pending     *)
(* deletions.                                                             *)
C20_EraserOnlyRemoves ==
  [][ \A pt \in Places : \A e \in Pointers(pt) :
        (tool = "eraser" /\ (DownBy(e) \/ MoveBy(e) \/ UpBy(e) \/ CancelBy(e))) =>
           LET removed == SelectSeq(_strokes, LAMBDA s : s.id \notin Ids(_strokes'))
           IN /\ _strokes' = SelectSeq(_strokes, LAMBDA s : s.id \in Ids(_strokes'))
              /\ UNCHANGED <<_images, _savePending>>
              /\ (removed = <<>>) => UNCHANGED <<_undoStack, _redoStack, _deletePending>>
              /\ (removed # <<>>) =>
                    /\ _undoStack' # <<>>
                    /\ Top(_undoStack') = [type |-> "delete", strokes |-> removed]
                    /\ _deletePending' =
                         _deletePending \o [i \in DOMAIN removed |-> removed[i].id]
    ]_vars

C20_Witness ==
  /\ tool = "eraser" /\ _drawing /\ Len(_points) = 2
  /\ _undoStack # <<>>
  /\ Top(_undoStack).type = "delete"
  /\ Top(_undoStack).strokes # <<>>
  /\ Ids(Top(_undoStack).strokes) \cap Ids(_strokes) = {}
  /\ Ids(Top(_undoStack).strokes) \subseteq Range(_deletePending)

(* --------------------------- the eraser's reach ----------------------- *)
Dist2(p, q) == (p.x - q.x) * (p.x - q.x) + (p.y - q.y) * (p.y - q.y)
Near(s, pt) ==
  \E i \in DOMAIN s.points :
     Dist2(s.points[i], pt) < (width * ERASER_FACTOR) * (width * ERASER_FACTOR)

(* C21: an erase at a point removes a stroke if and only if the stroke    *)
(* belongs to the active layer and one of its sample points lies at less  *)
(* than the eraser's radius from the point; every other stroke stays in   *)
(* the model, unchanged and in its place.                                 *)
C21_EraserRemovesHitStrokesOfActiveLayer ==
  [][ \A pt \in ErasePlaces :
        (tool = "eraser" /\ (PointerDown(pt) \/ PointerMove(pt))) =>
           _strokes' = SelectSeq(_strokes,
                         LAMBDA s : ~(s.layerId = ActiveLayer.id /\ Near(s, pt)))
    ]_vars

(* C21 as stated: an erase at a point removes a stroke if and only if one *)
(* of its sample points lies within the radius, whatever its layer.       *)
C21_EraserRemovesEveryHitStroke ==
  [][ \A pt \in ErasePlaces :
        (tool = "eraser" /\ (PointerDown(pt) \/ PointerMove(pt))) =>
           _strokes' = SelectSeq(_strokes, LAMBDA s : ~Near(s, pt))
    ]_vars

C21_Witness ==
  /\ tool = "eraser" /\ _drawing /\ Len(_points) = 1
  /\ _undoStack # <<>>
  /\ Top(_undoStack).type = "delete"
  /\ \E s \in Range(Top(_undoStack).strokes) :
        s.layerId = ActiveLayer.id /\ Near(s, _points[1])
  /\ \E s \in Range(_strokes) : s.layerId # ActiveLayer.id /\ Near(s, _points[1])

(* ------------------------------ bounding boxes ------------------------ *)
(* C22: the bbox of every stroke in the model is exactly the per-axis     *)
(* minimum and maximum of the stroke's sample points.                     *)
C22_BboxBoundsPoints ==
  \A i \in DOMAIN _strokes :
     LET s  == _strokes[i]
         xs == {s.points[k].x : k \in DOMAIN s.points}
         ys == {s.points[k].y : k \in DOMAIN s.points}
     IN Len(s.points) > 0 =>
           s.bbox = <<[x |-> Min(xs), y |-> Min(ys),
                       w |-> Max(xs) - Min(xs), h |-> Max(ys) - Min(ys)]>>

(* ------------------------------ the selection ------------------------- *)
(* a place where a click of the select tool meets no stroke, no image and *)
(* not the frame of the selection                                         *)
EmptyAt(pt) ==
  /\ \A i \in DOMAIN _strokes : ~StrokeHit(_strokes[i], pt.x, pt.y)
  /\ \A i \in DOMAIN _images : ~InRect(pt.x, pt.y, ImgRect(_images[i]))
  /\ (HasSel /\ Len(SelBbox(Sel)) = 1) =>
        /\ ~InRect(pt.x, pt.y, Padded(SelBbox(Sel)[1]))
        /\ Len(HandlesAt(pt.x, pt.y, Padded(SelBbox(Sel)[1]))) = 0

(* C23: every tool switch, every click of the select tool on an empty     *)
(* area and every press of Escape leaves the selection null, and the      *)
(* selection is non-null only while the tool is select or lasso.          *)
C23_SelectionLifetime ==
  [][ /\ (\E t \in {"pen", "select"} : SetTool(t)) => ~HasSel'
      /\ (\E pt \in {P1, P2} : tool = "select" /\ EmptyAt(pt) /\ PointerDown(pt)) => ~HasSel'
      /\ KeyEscape => ~HasSel'
      /\ HasSel' => tool' \in {"select", "lasso"}
    ]_vars

C29_TapCommitsDotOrNothing ==
  [][ \A pt \in {P1, P2} :
        (GestureUp(pt) /\ Len(_points) < 2 /\ HasLayer) =>
           IF tool \in {"pen", "marker", "highlighter"}
           THEN /\ Len(_strokes') = Len(phase.snap[1]) + 1
                /\ LET p == _points[1]
                       s == _strokes'[Len(_strokes')]
                   IN /\ _strokes' = Append(phase.snap[1], s)
                      /\ s.points = <<p, [x |-> p.x + DOT_OFFSET, y |-> p.y + DOT_OFFSET]>>
                      /\ s.tool = tool /\ s.layerId = ActiveLayer.id
                      /\ _undoStack' =
                            Append(phase.snap[3], [type |-> "add", strokes |-> <<s>>])
                      /\ _savePending' = Append(phase.snap[5], s)
                      /\ UNCHANGED <<_images, _deletePending>>
           ELSE UNCHANGED Recorded
    ]_vars

(* C29 as stated: a tap with any other tool leaves the model, the history *)
(* and the pending sets as they were before the tap.                      *)
C29_TapOfOtherToolChangesNothing ==
  [][ \A pt \in {P1, P2} :
        (GestureUp(pt) /\ Len(_points) < 2 /\ HasLayer
           /\ tool \notin {"pen", "marker", "highlighter"}) =>
              Recorded' = phase.snap
    ]_vars

C29_Witness ==
  /\ phase.stage = "free" /\ ~_drawing /\ tool = "pen" /\ Len(_points) = 1
  /\ Len(phase.snap) = 6
  /\ Len(_strokes) = Len(phase.snap[1]) + 1
  /\ _strokes[Len(_strokes)].points =
        <<_points[1], [x |-> _points[1].x + DOT_OFFSET, y |-> _points[1].y + DOT_OFFSET]>>

(* ------------------------------ small moves --------------------------- *)
(* C30: when a move gesture of the select tool ends less than 2 px from   *)
(* its start in both axes, nothing is scheduled for persistence and every *)
(* selected stroke and image is in the model at the position it has in    *)
(* the snapshot taken when the gesture started.                           *)
C30_SmallMoveLeavesNoDisplacement ==
  [][ ( /\ GestureUp(P1)
        /\ tool = "select" /\ Len(_points) >= 2 /\ HasSel /\ Sel._dragMode = ""
        /\ Len(_moveStart) = 1
        /\ Abs(_points[Len(_points)].x - _moveStart[1].x) < MOVE_EPS
        /\ Abs(_points[Len(_points)].y - _moveStart[1].y) < MOVE_EPS ) =>
           /\ UNCHANGED <<_savePending, _autoSaveTimer>>
           /\ Range(_moveStart[1].origStrokes) \subseteq Range(_strokes')
           /\ Range(_moveStart[1].origImages) \subseteq Range(_images')
    ]_vars

(* ------------------------------ viewport ------------------------------ *)
Recorded7 == <<_strokes, _images, layers, _undoStack, _redoStack, _savePending,
               _deletePending>>

(* the events that move the viewport: the fit button, setZoom, the wheel  *)
(* zooming and scrolling, a pointermove of a one-finger or space pan, a   *)
(* touchmove of two fingers and a frame of a coast                        *)
ViewStep ==
  \/ FitToScreen
  \/ \E s \in {0, 300} : SetZoom(s)
  \/ \E e \in WheelEvents : Wheel(e)
  \/ \E e \in {Touch(PNear), Mouse(PNear), Pen(P1)} : PanBy(Quick(e))
  \/ TwoFingerMove(Finger1, Finger2)
  \/ TwoFingerMove(Spread1, Spread2)
  \/ InertiaFrame

(* C24: a viewport operation (setZoom, wheel zoom or scroll, a move of a  *)
(* one-finger or space pan, a two-finger touchmove, a frame of inertia,   *)
(* fit-to-screen) leaves the strokes, the images, the layers, the history *)
(* and the pending sets as they were.                                     *)
C24_ViewportOperationsLeaveTheModel ==
  [][ViewStep => UNCHANGED Recorded7]_vars

(* the view has been zoomed and moved as often as the run allows, over a  *)
(* page that has a stroke, a history entry and a pending save             *)
C24_Witness ==
  /\ phase.calls = MaxViewOps
  /\ scale # 20 /\ offsetX # ScreenOrigin.x /\ offsetY # ScreenOrigin.y
  /\ Len(_strokes) = 1 /\ Len(_undoStack) = 1 /\ Len(_savePending) = 1

(* C26: once a page has been fitted, the zoom scale is between 0.05 and   *)
(* 10 whatever setZoom, the wheel, a pinch and the fit do.                *)
C26_ScaleStaysInRange ==
  pageId # 0 => scale >= ZOOM_MIN /\ scale <= ZOOM_MAX

(* two fingers have spread over a page shown at scale 10: the touchmove   *)
(* asked for scale 20 and moved the page, the scale is 10                 *)
C26_Witness ==
  /\ pageId # 0 /\ Len(_g) = 1
  /\ _g[1].scale0 = ZOOM_MAX /\ scale = ZOOM_MAX
  /\ offsetX # _g[1].offsetX0

(* C27: during a two-finger gesture a touchmove with the fingers where    *)
(* they were at touchstart (Finger1, Finger2) sets exactly the scale and  *)
(* the offset of the gesture's start.                                     *)
C27_PinchBackRestoresTheView ==
  [][(Len(_g) = 1 /\ TwoFingerMove(Finger1, Finger2)) =>
        /\ scale' = _g[1].scale0
        /\ offsetX' = _g[1].offsetX0
        /\ offsetY' = _g[1].offsetY0]_vars

LayerSettings ==
  [i \in DOMAIN layers |-> <<layers[i].visible, layers[i].locked, layers[i].opacity>>]

(* C25: undo and redo leave the image list, the viewport (scale and       *)
(* offset) and every layer's visibility, lock and opacity as they were.   *)
C25_UndoRedoLeaveViewLayersImages ==
  [][(KeyUndo \/ KeyRedo) =>
        /\ UNCHANGED <<_images, scale, offsetX, offsetY>>
        /\ LayerSettings' = LayerSettings]_vars

(* a dot has been undone on a page that holds an image, is zoomed in, and *)
(* whose active layer is hidden, locked and faded                         *)
C25_Witness ==
  /\ Len(_redoStack) = 1 /\ Len(_strokes) = 0
  /\ Len(_images) = 1
  /\ scale # 20 /\ offsetX # ScreenOrigin.x
  /\ HasLayer /\ ~ActiveLayer.visible /\ ActiveLayer.locked /\ ActiveLayer.opacity = 50

(* the page point under the screen place m1 of a view (o1, s1) is the     *)
(* page point under m0 of the view (o0, s0), to within 2 % or a screen    *)
(* pixel (the arithmetic of the viewport rounds): (m1 - o1) / s1 and      *)
(* (m0 - o0) / s0, compared after multiplying by s0 * s1                  *)
SamePagePoint(m1, o1, s1, m0, o0, s0) ==
  LET a == (m1 - o1) * s0
      b == (m0 - o0) * s1
  IN Abs(a - b) * 50 <= Abs(a) + Abs(b) + 50 * 20 * s0

(* after a touchmove the page point that was under the midpoint of the    *)
(* gesture's start is under the midpoint of the touches                   *)
MidpointKept ==
  /\ SamePagePoint(_g'[1].lastMx, offsetX', scale', _g[1].mx0, _g[1].offsetX0, _g[1].scale0)
  /\ SamePagePoint(_g'[1].lastMy, offsetY', scale', _g[1].my0, _g[1].offsetY0, _g[1].scale0)

PinchMove == TwoFingerMove(Finger1, Finger2) \/ TwoFingerMove(Spread1, Spread2)

(* C31: after every touchmove of a two-finger gesture the page point that *)
(* was under the start midpoint is under the current midpoint at the new  *)
(* scale, also when the scale is clamped at 0.05 or at 10.                *)
C31_PinchKeepsThePagePointUnderTheMidpoint ==
  [][(Len(_g) = 1 /\ PinchMove) => MidpointKept]_vars

(* Convergence: one page, pen taps, the eraser, undo and redo, the        *)
(* debounce timer and flushes whose every request the store accepts.      *)
NextConverge ==
  \/ pageId = 0 /\ OpenEditor(1)
  \/ NavLoaded
  \/ PointerDown(P1)
  \/ PointerUp
  \/ \E t \in {"pen", "eraser"} : SetTool(t)
  \/ KeyUndo
  \/ KeyRedo
  \/ TimerFires
  \/ FlushSettles("ok")

SpecConverge == Init /\ [][NextConverge]_vars

(* the ids of the rows the store holds for page p                         *)
StoredIds(p) == {dbStrokes[i].id : i \in {j \in DOMAIN dbStrokes : dbStrokes[j].page_id = p}}

Quiescent == _savePending = <<>> /\ _deletePending = <<>> /\ flushes = <<>>

(* C32: whenever both pending sets are empty and no flush is in flight,   *)
(* every request having succeeded, the store holds for the open page the  *)
(* strokes of the model: the same set of ids.                             *)
C32_QuiescentStoreMatchesTheModel ==
  (pageId # 0 /\ Quiescent) => StoredIds(pageId) = Ids(_strokes)

(* Page switches under a flush: pen taps and undo on either page, turning *)
(* the page while a flush awaits a response, the timer, and requests      *)
(* that succeed or are lost.                                              *)
NextSwitch ==
  \/ \E p \in PageIds : OpenEditor(p)
  \/ \E p \in PageIds : NavTo(p)
  \/ NavLoaded
  \/ PointerDown(P1)
  \/ PointerUp
  \/ KeyUndo
  \/ TimerFires
  \/ \E o \in {"ok", "neterr"} : FlushSettles(o)

SpecSwitch == Init /\ [][NextSwitch]_vars

(* the request a flush awaits names the page of the strokes it upserts    *)
(* and of the rows it deletes                                             *)
CarriesItsPage(req) ==
  /\ \A s \in Range(req.strokes) : s.pageId = req.pageId
  /\ \A r \in Range(dbStrokes) : r.id \in Range(req.ids) => r.page_id = req.pageId

(* C33: however a flush in flight interleaves with loadPage, every upsert *)
(* or delete request carries the page id of the page on which its strokes *)
(* were committed, and what a failed flush puts back never enters the     *)
(* pending set of a page loaded meanwhile.                                *)
C33_RequestsAndRequeuesKeepTheirPage ==
  /\ \A i \in DOMAIN flushes : CarriesItsPage(Request(flushes[i]))
  /\ \A s \in Range(_savePending) : s.pageId = pageId

(* C34: while no pointer gesture is in progress the move snapshot         *)
(* (_moveStart) is null, and whenever it is not null the selection is not *)
(* null either, so that finishing a select gesture never reads a field of *)
(* a null selection.                                                      *)
C34_MoveSnapshotOnlyInAGestureOnASelection ==
  /\ ~_drawing => _moveStart = <<>>
  /\ Len(_moveStart) = 1 => HasSel

LayerIds == {layers[i].id : i \in DOMAIN layers}

(* C35: every stroke of the model and every stroke waiting in the pending *)
(* set for its upsert has the id of a layer of the layer list as its      *)
(* layer id, also after deleteLayer.                                      *)
C35_StrokesLieOnListedLayers ==
  pageId # 0 =>
    \A s \in Range(_strokes) \cup Range(_savePending) : s.layerId \in LayerIds

(* C36: no two strokes of the model have the same id, whatever commits,   *)
(* pastes, erases, selection deletes, clear-page calls, undos and redos   *)
(* have run.                                                              *)
C36_StrokeIdsAreUnique ==
  \A i, j \in DOMAIN _strokes : _strokes[i].id = _strokes[j].id => i = j

(* C37: every stroke the selection refers to is present in the model      *)
(* (same id).                                                             *)
C37_SelectedStrokesAreInTheModel ==
  HasSel => Ids(Sel.strokes) \subseteq Ids(_strokes)

LockedOrHidden == HasLayer /\ (ActiveLayer.locked \/ ~ActiveLayer.visible)

PointerStep == PointerDown(P1) \/ PointerMove(P1) \/ PointerUp

(* C38: while the active layer is locked or hidden, a pointerdown, a      *)
(* pointermove or a pointerup leaves the model, the history and the       *)
(* pending sets as they were, and starts no gesture.                      *)
C38_LockedOrHiddenLayerTakesNoInput ==
  [][(LockedOrHidden /\ PointerStep) =>
        /\ UNCHANGED Recorded
        /\ _drawing' => _drawing]_vars

(* The active layer: page loads and turns, setActiveLayer with indices in *)
(* and out of range, and addLayer and deleteLayer calls with their        *)
(* requests in flight, settling in any order.  Nothing is drawn.          *)
NextActive ==
  \/ pageId = 0 /\ OpenEditor(1)
  \/ \E p \in PageIds : NavTo(p)
  \/ NavLoaded
  \/ \E idx \in 0..(LayersPerPage + MaxAdds + 1) : SetActiveLayerAt(idx)
  \/ AddLayerCall
  \/ \E i \in 1..MaxLayerCalls, o \in {"ok", "neterr", "lost"} : AddLayerSettles(i, o)
  \/ \E idx \in 1..(LayersPerPage + MaxAdds) : DeleteLayerCall(idx)
  \/ \E i \in 1..MaxLayerCalls, o \in {"ok", "neterr", "lost"} : DeleteLayerSettles(i, o)

SpecActive == Init /\ [][NextActive]_vars

(* C39: whenever the layer list is not empty the active index is an index *)
(* of the list (0 <= activeLayerIdx < layers.length; here from 1), after  *)
(* any loadPage, setActiveLayer, addLayer and deleteLayer calls, also     *)
(* when the round trips of addLayer and deleteLayer interleave.           *)
C39_ActiveIndexInRange ==
  Len(layers) > 0 => (1 <= activeLayerIdx /\ activeLayerIdx <= Len(layers))

(* a deleteLayer has shortened the list to one layer, which is active,    *)
(* while an addLayer call is still waiting for its answer                 *)
C39_Witness ==
  /\ pageId # 0 /\ Len(layers) = 1 /\ activeLayerIdx = 1
  /\ Len(dbLayers[pageId]) = LayersPerPage
  /\ \E i \in DOMAIN layerReqs : layerReqs[i].call = "addLayer"

(* ========================= the persistence API ======================== *)
(* Two users: page 1 lies in a notebook of user "A", page 2 in one of     *)
(* user "B".  Every request carries the session's user.                   *)
Users == {"A", "B"}

PageOwner(p) == IF p = 1 THEN "A" ELSE "B"

(* ownedPage(db, pageId, userId): the page exists and its notebook is the *)
(* user's                                                                 *)
ownedPage(p, u) == p \in PageIds /\ PageOwner(p) = u

ApiFrame == UNCHANGED <<engineVars, flushes, upsertIssued, lastFlush, clearReqs, dbLayers,
                        layerReqs, appVars, phase>>

(* POST /api/strokes/batch                                                *)
ApiPostBatch(u, page, layerId, strokes) ==
  /\ dbStrokes' = IF ownedPage(page, u) THEN PostBatch(dbStrokes, page, layerId, strokes)
                  ELSE dbStrokes
  /\ UNCHANGED dbImages /\ ApiFrame

(* DELETE /api/strokes                                                    *)
ApiDeleteStrokes(u, page, ids) ==
  /\ dbStrokes' = IF ownedPage(page, u) THEN DeleteStrokes(dbStrokes, page, ids)
                  ELSE dbStrokes
  /\ UNCHANGED dbImages /\ ApiFrame

(* DELETE /api/strokes/page/:pageId?layerId=                              *)
ApiDeletePage(u, page, layerId) ==
  /\ dbStrokes' = IF ownedPage(page, u) THEN DeletePageStrokes(dbStrokes, page, layerId)
                  ELSE dbStrokes
  /\ UNCHANGED dbImages /\ ApiFrame

(* POST /api/strokes/images; the id is the route's uuid(), here the least *)
(* id no row has                                                          *)
ApiPostImage(u, page, layerId, img) ==
  /\ Len(dbImages) < MaxImages
  /\ dbImages' = IF ownedPage(page, u)
                 THEN PostImage(dbImages, Min((1..MaxImages) \ Ids(dbImages)), page,
                                layerId, img)
                 ELSE dbImages
  /\ UNCHANGED dbStrokes /\ ApiFrame

(* PATCH /api/strokes/images/:id                                          *)
ApiPatchImage(u, id, img) ==
  /\ dbImages' = PatchImage(dbImages, id, img)
  /\ UNCHANGED dbStrokes /\ ApiFrame

(* DELETE /api/strokes/images/:id                                         *)
ApiDeleteImage(u, id) ==
  /\ dbImages' = DeleteImage(dbImages, id)
  /\ UNCHANGED dbStrokes /\ ApiFrame

(* what the requests carry: a stroke under one of two ids, as a pen or a  *)
(* marker stroke; an image at one of two places                           *)
ApiStroke(id, t) == [id |-> id, tool |-> t, points |-> <<P1>>, bbox |-> <<>>]

ApiImages == {[x |-> px, y |-> 0, width |-> 6000, height |-> 6000] : px \in {0, 400}}

(* a request of user u                                                    *)
ApiBy(u) ==
  \/ \E p \in PageIds, id \in 1..MaxStrokes, t \in {"pen", "marker"} :
        ApiPostBatch(u, p, LayerDefs(p)[1].id, <<ApiStroke(id, t)>>)
  \/ \E p \in PageIds, id \in 1..MaxStrokes : ApiDeleteStrokes(u, p, <<id>>)
  \/ \E p \in PageIds : ApiDeletePage(u, p, LayerDefs(p)[1].id)
  \/ \E p \in PageIds, img \in ApiImages : ApiPostImage(u, p, LayerDefs(p)[1].id, img)
  \/ \E id \in 1..MaxImages, img \in ApiImages : ApiPatchImage(u, id, img)
  \/ \E id \in 1..MaxImages : ApiDeleteImage(u, id)

(* The store alone: the two users send requests to the stroke and image   *)
(* routes; no editor is open.                                             *)
NextTenants == \E u \in Users : ApiBy(u)

SpecTenants == Init /\ [][NextTenants]_vars

(* the rows of the pages that are not u's                                 *)
RowsOfOthers(u) ==
  <<SelectSeq(dbStrokes, LAMBDA r : ~ownedPage(r.page_id, u)),
    SelectSeq(dbImages, LAMBDA r : ~ownedPage(r.page_id, u))>>

(* C40: a request of user A to the stroke and image routes leaves every   *)
(* stroke row and image row of the pages that are not A's as it was.      *)
C40_RequestsLeaveOtherUsersRows ==
  [][ApiBy("A") => RowsOfOthers("A")' = RowsOfOthers("A")]_vars
====
